---------------------------- MODULE Spec2Model ----------------------------
(***************************************************************************)
(* Verification model of sss-crypto: the share / envelope wire codec, the   *)
(* share collection component (SharesInput + HiddenInput + Input) and the   *)
(* decrypt face built on it.                                                *)
(*                                                                          *)
(* Texts are sequences of one-character strings.  Binary material (keys,    *)
(* ciphertexts) handled by node:crypto and secrets.js is symbolic.          *)
(***************************************************************************)
EXTENDS Integers, Sequences, FiniteSets, TLC

VARIABLES
    stage,          \* Decrypt: React state `stage`
    resetKey,       \* useResetKey: React state `resetKey` (key of SharesInput)
    threshold,      \* SharesInput: React state `threshold` (None = undefined)
    shares,         \* SharesInput: React state `shares`
    input,          \* Input: React state `input` of the mounted slot
    error,          \* HiddenInput: React state `error` of the mounted slot
    encryptedData,  \* Decrypt: prop `encryptedData`
    accepted,       \* history: shares passed by onShareInput since the mount
    handed,         \* history: arguments of every onDone call since the mount
    pc,             \* codec runs: position of the run
    obj,            \* codec runs: the object given to serialize*
    text,           \* codec runs: the wire text
    defect,         \* codec runs: the malformation applied to the text
    parsed          \* codec runs: outcome of the validation

vars == <<stage, resetKey, threshold, shares, input, error, encryptedData,
          accepted, handed, pc, obj, text, defect, parsed>>

sessionVars == <<stage, resetKey, threshold, shares, input, error,
                 encryptedData, accepted, handed>>
codecVars == <<pc, obj, text, defect, parsed>>

-----------------------------------------------------------------------------
(* Bounds of the model *)

\* the share body has 4 * ShareBodyGroups symbols in the model
ShareBodyGroups == 1
\* largest threshold written into a share line
MaxThreshold == 3
\* resets of one decrypt session that are followed
MaxResets == 1
\* largest plaintext, in bytes, of an encrypted envelope
MaxPlainBytes == 3
\* symbols outside the base64 alphabet inserted into one typed line
MaxForeign == 1
\* symbols erased one by one from a typed line (beyond that the key is held
\* until the prompt is empty)
MaxErased == 1
MaxAmountArg == 11
MaxSharesArg == 10

\* the text to encrypt has at most MaxTemplates templates
MaxTemplates == 2

\* at most MaxInFlight validations of HiddenInput are awaited at a time
MaxInFlight == 2

\* Enter is pressed on the empty prompt of encrypt at most MaxEmptyEnters
\* times
MaxEmptyEnters == 1

\* the text on stdin has at most MaxStdinLines lines
MaxStdinLines == 2

-----------------------------------------------------------------------------
(* Characters and texts *)

None == <<>>
Some(v) == <<v>>

Digit == {"0", "1", "2", "3", "4", "5", "6", "7", "8", "9"}
Lower == {"a", "b", "c", "d", "e", "f", "g", "h", "i", "j", "k", "l", "m",
          "n", "o", "p", "q", "r", "s", "t", "u", "v", "w", "x", "y", "z"}
Upper == {"A", "B", "C", "D", "E", "F", "G", "H", "I", "J", "K", "L", "M",
          "N", "O", "P", "Q", "R", "S", "T", "U", "V", "W", "X", "Y", "Z"}
HexLower == Digit \cup {"a", "b", "c", "d", "e", "f"}
Base64Symbol == Digit \cup Lower \cup Upper \cup {"+", "/"}
Whitespace == {" ", "\n", "\t", "\r"}

Digits36 == <<"0", "1", "2", "3", "4", "5", "6", "7", "8", "9",
              "a", "b", "c", "d", "e", "f", "g", "h", "i", "j", "k", "l", "m",
              "n", "o", "p", "q", "r", "s", "t", "u", "v", "w", "x", "y", "z">>
UpperDigits36 == <<"0", "1", "2", "3", "4", "5", "6", "7", "8", "9",
              "A", "B", "C", "D", "E", "F", "G", "H", "I", "J", "K", "L", "M",
              "N", "O", "P", "Q", "R", "S", "T", "U", "V", "W", "X", "Y", "Z">>

Repeat(c, n) == [i \in 1..n |-> c]

Join(a, b) == a \o <<"|">> \o b

\* String.prototype.split("|")
PipePos(s) == {i \in 1..Len(s) : s[i] = "|"}
SplitBound(s, k) ==
    IF k = 0 THEN 0
    ELSE IF k = Cardinality(PipePos(s)) + 1 THEN Len(s) + 1
    ELSE CHOOSE i \in PipePos(s) :
             Cardinality({j \in PipePos(s) : j < i}) = k - 1
Split(s) ==
    [k \in 1..(Cardinality(PipePos(s)) + 1) |->
        SubSeq(s, SplitBound(s, k - 1) + 1, SplitBound(s, k) - 1)]

\* String.prototype.replaceAll(/\s/g, "")
stripWhitespace(s) == SelectSeq(s, LAMBDA c : c \notin Whitespace)

\* utils/encoding sanitizeBase64: keeps [A-Za-z0-9=+|/] only
sanitizeBase64(s) ==
    SelectSeq(s, LAMBDA c : c \in Base64Symbol \cup {"=", "|"})

-----------------------------------------------------------------------------
(* Numbers and their textual forms *)

NaN == -1

DigitValue(c) ==
    IF \E i \in 1..36 : Digits36[i] = c
    THEN (CHOOSE i \in 1..36 : Digits36[i] = c) - 1
    ELSE IF \E i \in 1..36 : UpperDigits36[i] = c
    THEN (CHOOSE i \in 1..36 : UpperDigits36[i] = c) - 1
    ELSE 36

\* Number.prototype.toString(radix) of a non-negative integer
RECURSIVE toStringRadix(_, _)
toStringRadix(n, radix) ==
    IF n < radix THEN <<Digits36[n + 1]>>
    ELSE toStringRadix(n \div radix, radix) \o <<Digits36[(n % radix) + 1]>>

\* value of a text all of whose symbols are digits of the radix
RECURSIVE digitsValue(_, _)
digitsValue(s, radix) ==
    IF Len(s) = 0 THEN 0
    ELSE digitsValue(SubSeq(s, 1, Len(s) - 1), radix) * radix
             + DigitValue(s[Len(s)])

\* Number.parseInt(text, radix): the longest prefix of digits of the radix
parseInt(s, radix) ==
    LET ok(i) == \A j \in 1..i : DigitValue(s[j]) < radix
        n == IF Len(s) = 0 THEN 0
             ELSE CHOOSE i \in 0..Len(s) :
                      ok(i) /\ (i = Len(s) \/ ~ok(i + 1))
    IN  IF n = 0 THEN NaN ELSE digitsValue(SubSeq(s, 1, n), radix)

\* Number(text) for the texts the share pattern lets through
Number(s) ==
    IF Len(s) > 0 /\ \A i \in 1..Len(s) : s[i] \in Digit
    THEN digitsValue(s, 10)
    ELSE IF Len(s) = 0 THEN 0 ELSE NaN

RECURSIVE Pow2(_)
Pow2(n) == IF n <= 0 THEN 1 ELSE 2 * Pow2(n - 1)

-----------------------------------------------------------------------------
(* Validation results: zod issues in the order zod reports them *)

Ok(v) == [ok |-> TRUE, value |-> v, issues |-> <<>>]
Fail(msgs) == [ok |-> FALSE, value |-> None, issues |-> msgs]

IssueIf(cond, msg) == IF cond THEN <<msg>> ELSE <<>>

-----------------------------------------------------------------------------
(* Share codec *)

SHARE_LENGTH == 4 * ShareBodyGroups

\* /^(?:[A-Za-z0-9+/]{4})*(?:[A-Za-z0-9+/]{2}==|[A-Za-z0-9+/]{3}=)?$/
isBase64Body(d) ==
    /\ Len(d) % 4 = 0
    /\ \A i \in 1..Len(d) :
          \/ d[i] \in Base64Symbol
          \/ /\ d[i] = "="
             /\ i > Len(d) - 2
             /\ i = Len(d) \/ d[Len(d)] = "="

allIn(s, S) == \A i \in 1..Len(s) : s[i] \in S

\* serializeShare
serializeShare(share) ==
    Join(Join(Join(toStringRadix(share.threshold, 10),
                   toStringRadix(share.bits, 36)),
              toStringRadix(share.id, 16)),
         share.data)

shareFieldsSchemaNoRefine(f) ==
    LET thresholdValue == Number(f[1])
        bitsValue == parseInt(f[2], 36)
        idValue == parseInt(f[3], 16)
        fieldIssues ==
            IssueIf(thresholdValue = NaN,
                    "Invalid input: expected number, received NaN")
            \o IssueIf(thresholdValue # NaN /\ thresholdValue < 2,
                    "Too small: expected number to be >=2")
            \o IssueIf(bitsValue = NaN,
                    "Invalid input: expected number, received NaN")
            \o IssueIf(bitsValue # NaN /\ bitsValue < 3,
                    "Too small: expected number to be >=3")
            \o IssueIf(bitsValue > 20,
                    "Too big: expected number to be <=20")
            \o IssueIf(idValue = NaN,
                    "Invalid input: expected number, received NaN")
            \o IssueIf(idValue # NaN /\ idValue < 1,
                    "Too small: expected number to be >=1")
            \o IssueIf(~isBase64Body(f[4]),
                    "Expected to have base64 for a share body")
            \o IssueIf(Len(f[4]) # SHARE_LENGTH,
                    "Expected to have " \o ToString(SHARE_LENGTH)
                        \o " symbols for a share body")
    IN  IF fieldIssues # <<>> THEN Fail(fieldIssues)
        ELSE Ok([threshold |-> thresholdValue, bits |-> bitsValue,
                 id |-> idValue, data |-> f[4]])

\* zod object of threshold / bits / id / data with the Galois field refine,
\* given the four split fields
shareFieldsSchema(f) ==
    LET thresholdValue == Number(f[1])
        bitsValue == parseInt(f[2], 36)
        idValue == parseInt(f[3], 16)
        fieldIssues ==
            IssueIf(thresholdValue = NaN,
                    "Invalid input: expected number, received NaN")
            \o IssueIf(thresholdValue # NaN /\ thresholdValue < 2,
                    "Too small: expected number to be >=2")
            \o IssueIf(bitsValue = NaN,
                    "Invalid input: expected number, received NaN")
            \o IssueIf(bitsValue # NaN /\ bitsValue < 3,
                    "Too small: expected number to be >=3")
            \o IssueIf(bitsValue > 20,
                    "Too big: expected number to be <=20")
            \o IssueIf(idValue = NaN,
                    "Invalid input: expected number, received NaN")
            \o IssueIf(idValue # NaN /\ idValue < 1,
                    "Too small: expected number to be >=1")
            \o IssueIf(~isBase64Body(f[4]),
                    "Expected to have base64 for a share body")
            \o IssueIf(Len(f[4]) # SHARE_LENGTH,
                    "Expected to have " \o ToString(SHARE_LENGTH)
                        \o " symbols for a share body")
    IN  IF fieldIssues # <<>> THEN Fail(fieldIssues)
        ELSE IF ~(idValue <= Pow2(bitsValue - 1))
        THEN Fail(<<"Expected id to be in Galois field">>)
        ELSE Ok([threshold |-> thresholdValue, bits |-> bitsValue,
                 id |-> idValue, data |-> f[4]])

\* /^\d+\|\d+\|\d+\|[a-zA-Z0-9+=/]*$/
serializedShareSchema(s) ==
    LET f == Split(s)
    IN  /\ Len(f) = 4
        /\ Len(f[1]) > 0 /\ allIn(f[1], Digit)
        /\ Len(f[2]) > 0 /\ allIn(f[2], Digit)
        /\ Len(f[3]) > 0 /\ allIn(f[3], Digit)
        /\ allIn(f[4], Base64Symbol \cup {"="})

deserializeShareUpperCased(s) ==
    LET upper(c) == IF c \in Lower
                    THEN UpperDigits36[CHOOSE i \in 1..36 : Digits36[i] = c]
                    ELSE c
        f == Split(s)
    IN  IF ~serializedShareSchema(s) THEN Fail(<<"Share format is incorrect">>)
        ELSE shareFieldsSchema(
                 <<f[1], f[2], f[3], [i \in 1..Len(f[4]) |-> upper(f[4][i])]>>)

\* deserializeShare
deserializeShare(s) ==
    IF ~serializedShareSchema(s) THEN Fail(<<"Share format is incorrect">>)
    ELSE shareFieldsSchema(Split(s))

\* /^\d+\|\d+\|[0-9a-f]+\|[a-zA-Z0-9+=/]*$/
sharePattern(s) ==
    LET f == Split(s)
    IN  /\ Len(f) = 4
        /\ Len(f[1]) > 0 /\ allIn(f[1], Digit)
        /\ Len(f[2]) > 0 /\ allIn(f[2], Digit)
        /\ Len(f[3]) > 0 /\ allIn(f[3], HexLower)
        /\ allIn(f[4], Base64Symbol \cup {"="})

\* shareObjectSchema
shareObjectSchema(s) ==
    LET line == stripWhitespace(s)
    IN  IF ~sharePattern(line) THEN Fail(<<"Share format is incorrect">>)
        ELSE shareFieldsSchema(Split(line))

-----------------------------------------------------------------------------
(* Encrypted envelope codec *)

symmetricEncryptionBytes == 256
initVectorBytes == 16
authTagBytes == 16
brandingTag == <<"s", "s", "s", "-", "e", "n", "c">>

\* Math.ceil(initialBytes / 3) * 4
getBase64ByteLength(initialBytes) == ((initialBytes + 2) \div 3) * 4

initialVectorLength == getBase64ByteLength(initVectorBytes)
authTagLength == getBase64ByteLength(authTagBytes)
aesKeyLength == getBase64ByteLength(symmetricEncryptionBytes)

TagMessage == "Data is invalid, expected data with \"sss-enc\" prefix."
InitVectorMessage ==
    "Initial vector has to have length of "
        \o ToString(initialVectorLength) \o " bytes."
AuthTagMessage ==
    "Auth tag has to have length of " \o ToString(authTagLength) \o " bytes."
AesKeyMessage ==
    "Encrypted AES key has to have length of "
        \o ToString(aesKeyLength) \o " bytes."
NoTextMessage == "No text to decrypt on decryption."
ExtraMessage == "Extra data on decryption."
BoxFormatMessage == "Encrypted box format is incorrect"

\* rest.join("|") of the segments after the fifth
RECURSIVE joinFrom(_, _)
joinFrom(f, k) ==
    IF k > Len(f) THEN <<>>
    ELSE IF k = Len(f) THEN f[k]
    ELSE Join(f[k], joinFrom(f, k + 1))

\* encryptedBoxSchema
encryptedBoxSchema(s) ==
    LET box == stripWhitespace(s)
        f == Split(box)
        seg(k) == IF k <= Len(f) THEN stripWhitespace(f[k]) ELSE <<>>
        extra == joinFrom(f, 6)
        issues ==
            IssueIf(seg(1) # brandingTag, TagMessage)
            \o IssueIf(Len(seg(2)) # initialVectorLength, InitVectorMessage)
            \o IssueIf(Len(seg(3)) # initialVectorLength, AuthTagMessage)
            \o IssueIf(Len(seg(4)) # aesKeyLength, AesKeyMessage)
            \o IssueIf(Len(seg(5)) < getBase64ByteLength(1), NoTextMessage)
            \o IssueIf(Len(extra) # 0, ExtraMessage)
    IN  IF Cardinality(PipePos(box)) < 4 THEN Fail(<<BoxFormatMessage>>)
        ELSE IF issues # <<>> THEN Fail(issues)
        ELSE Ok([tag |-> seg(1),
                 initVector |-> sanitizeBase64(seg(2)),
                 authTag |-> sanitizeBase64(seg(3)),
                 encryptedAesKey |-> sanitizeBase64(seg(4)),
                 encryptedText |-> sanitizeBase64(seg(5)),
                 extra |-> extra])

serializeEncryptedDataSwapped(box) ==
    Join(Join(Join(Join(box.tag, box.authTag), box.initVector),
              box.encryptedAesKey),
         box.encryptedText)

\* serializeEncryptedData
serializeEncryptedData(box) ==
    Join(Join(Join(Join(box.tag, box.initVector), box.authTag),
              box.encryptedAesKey),
         box.encryptedText)

-----------------------------------------------------------------------------
(* Inputs of the codec runs *)

\* Buffer.toString("base64") of `bytes` bytes whose symbols are all `c`
base64Of(c, bytes) ==
    LET symbols == (bytes * 8 + 5) \div 6
    IN  Repeat(c, symbols)
            \o Repeat("=", getBase64ByteLength(bytes) - symbols)

ValidShareBodies ==
    { Repeat("A", SHARE_LENGTH),
      Repeat("b", SHARE_LENGTH - 1) \o <<"=">>,
      Repeat("/", SHARE_LENGTH - 2) \o <<"=", "=">> }

SampleIds(bits) ==
    {i \in {1, 2, 9, 10, 15, 16, 255, 256, Pow2(bits - 1)} :
        i <= Pow2(bits - 1)}

ValidShareObjects ==
    UNION { [threshold : 2..MaxThreshold, bits : {b}, id : SampleIds(b),
             data : ValidShareBodies] : b \in 3..20 }

ValidEnvelopes ==
    [tag : {brandingTag},
     initVector : {base64Of("A", initVectorBytes),
                   base64Of("B", initVectorBytes)},
     authTag : {base64Of("C", authTagBytes), base64Of("+", authTagBytes)},
     encryptedAesKey : {base64Of("D", symmetricEncryptionBytes),
                        base64Of("/", symmetricEncryptionBytes)},
     encryptedText : {base64Of("E", n) : n \in 1..MaxPlainBytes},
     extra : {<<>>}]

\* the malformations of a share text
ShapeDefects == {"fieldDropped", "fieldAdded", "noPipes"}
ThresholdDefects == {"thresholdZero", "thresholdOne", "thresholdEmpty"}
BitsDefects == {"bitsZero", "bitsLow", "bitsHigh", "bitsAbove", "bitsEmpty"}
IdDefects == {"idZero", "idAbove", "idEmpty"}
DataDefects == {"dataSymbol", "dataPadding", "dataShort", "dataLong",
                "dataOdd"}
ShareDefects ==
    ShapeDefects \cup ThresholdDefects \cup BitsDefects \cup IdDefects
        \cup DataDefects

MalformedShareText(share, d) ==
    LET with(f1, f2, f3, f4) == Join(Join(Join(f1, f2), f3), f4)
        t0 == toStringRadix(share.threshold, 10)
        b0 == toStringRadix(share.bits, 36)
        i0 == toStringRadix(share.id, 16)
        d0 == share.data
    IN  CASE d = "fieldDropped" -> Join(Join(t0, b0), d0)
          [] d = "fieldAdded" -> Join(with(t0, b0, i0, d0), d0)
          [] d = "noPipes" -> t0 \o b0 \o i0 \o d0
          [] d = "thresholdZero" -> with(<<"0">>, b0, i0, d0)
          [] d = "thresholdOne" -> with(<<"1">>, b0, i0, d0)
          [] d = "thresholdEmpty" -> with(<<>>, b0, i0, d0)
          [] d = "bitsZero" -> with(t0, <<"0">>, i0, d0)
          [] d = "bitsLow" -> with(t0, <<"2">>, <<"1">>, d0)
          [] d = "bitsHigh" -> with(t0, <<"2", "1">>, i0, d0)
          [] d = "bitsAbove" -> with(t0, toStringRadix(21, 36), i0, d0)
          [] d = "bitsEmpty" -> with(t0, <<>>, i0, d0)
          [] d = "idZero" -> with(t0, b0, <<"0">>, d0)
          [] d = "idAbove" ->
                 with(t0, b0, toStringRadix(Pow2(share.bits - 1) + 1, 16), d0)
          [] d = "idEmpty" -> with(t0, b0, <<>>, d0)
          [] d = "dataSymbol" -> with(t0, b0, i0, <<"-">> \o Tail(d0))
          [] d = "dataPadding" -> with(t0, b0, i0, <<"=">> \o Tail(d0))
          [] d = "dataShort" ->
                 with(t0, b0, i0, SubSeq(d0, 1, Len(d0) - 4))
          [] d = "dataLong" ->
                 with(t0, b0, i0, <<"A", "A", "A", "A">> \o d0)
          [] d = "dataOdd" -> with(t0, b0, i0, Tail(d0))

\* the malformations of an envelope text
TagDefects == {"tagOther", "tagEmpty", "tagPrefix", "tagDropped", "literal"}
InitVectorDefects == {"ivShort", "ivLong", "ivEmpty"}
AuthTagDefects == {"authTagShort", "authTagLong", "authTagEmpty"}
AesKeyDefects == {"keyShort", "keyLong", "keyEmpty"}
TextDefects == {"textEmpty"}
ExtraDefects == {"extra", "extraTwo", "extraEmpty"}
BenignDefects == {"wrapped"}
BoxDefects ==
    TagDefects \cup InitVectorDefects \cup AuthTagDefects
        \cup AesKeyDefects \cup TextDefects \cup ExtraDefects
        \cup BenignDefects

\* `${value.slice(0, -10)}malformed`
malformed(v) ==
    SubSeq(v, 1, Len(v) - 10)
        \o <<"m", "a", "l", "f", "o", "r", "m", "e", "d">>

MalformedBoxText(box, d) ==
    LET good == serializeEncryptedData(box)
        with(tag, iv, at, key, txt) ==
            Join(Join(Join(Join(tag, iv), at), key), txt)
        tag0 == box.tag
        iv0 == box.initVector
        at0 == box.authTag
        key0 == box.encryptedAesKey
        txt0 == box.encryptedText
    IN  CASE d = "tagOther" -> with(<<"x">>, iv0, at0, key0, txt0)
          [] d = "tagEmpty" -> with(<<>>, iv0, at0, key0, txt0)
          [] d = "tagPrefix" ->
                 with(SubSeq(tag0, 1, Len(tag0) - 1), iv0, at0, key0, txt0)
          [] d = "tagDropped" -> Join(Join(Join(iv0, at0), key0), txt0)
          [] d = "literal" -> with(<<"x">>, <<"y">>, <<"z">>, <<"a">>, <<"b">>)
          [] d = "ivShort" -> with(tag0, malformed(iv0), at0, key0, txt0)
          [] d = "ivLong" -> with(tag0, iv0 \o <<"A">>, at0, key0, txt0)
          [] d = "ivEmpty" -> with(tag0, <<>>, at0, key0, txt0)
          [] d = "authTagShort" -> with(tag0, iv0, malformed(at0), key0, txt0)
          [] d = "authTagLong" -> with(tag0, iv0, at0 \o <<"A">>, key0, txt0)
          [] d = "authTagEmpty" -> with(tag0, iv0, <<>>, key0, txt0)
          [] d = "keyShort" -> with(tag0, iv0, at0, malformed(key0), txt0)
          [] d = "keyLong" -> with(tag0, iv0, at0, key0 \o <<"A">>, txt0)
          [] d = "keyEmpty" -> with(tag0, iv0, at0, <<>>, txt0)
          [] d = "textEmpty" -> with(tag0, iv0, at0, key0, <<>>)
          [] d = "extra" -> Join(good, <<"e", "x", "t", "r", "a">>)
          [] d = "extraTwo" -> Join(Join(good, <<"a">>), <<"b">>)
          [] d = "extraEmpty" -> Join(good, <<>>)
          [] d = "wrapped" ->
                 with(tag0, iv0, at0,
                      SubSeq(key0, 1, 64) \o <<"\n">>
                          \o SubSeq(key0, 65, Len(key0)),
                      txt0) \o <<"\n">>

-----------------------------------------------------------------------------
(* Codec runs: serialize an object, possibly malform the text, validate it *)

SessionIdle ==
    /\ stage = [type |-> "idle"]
    /\ resetKey = 0
    /\ threshold = None
    /\ shares = <<>>
    /\ input = <<>>
    /\ error = None
    /\ encryptedData = None
    /\ accepted = <<>>
    /\ handed = <<>>

ShareCodecInit ==
    /\ SessionIdle
    /\ pc = "share"
    /\ obj \in ValidShareObjects
    /\ text = <<>>
    /\ defect = "none"
    /\ parsed = None

SerializeShareStep ==
    /\ pc = "share"
    /\ text' = serializeShare(obj)
    /\ pc' = "shareText"
    /\ UNCHANGED <<obj, defect, parsed, sessionVars>>

MalformShareStep ==
    /\ pc = "shareText"
    /\ defect = "none"
    /\ \E d \in ShareDefects :
          /\ defect' = d
          /\ text' = MalformedShareText(obj, d)
    /\ UNCHANGED <<pc, obj, parsed, sessionVars>>

DeserializeShareStep ==
    /\ pc = "shareText"
    /\ parsed' = deserializeShare(text)
    /\ pc' = "deserialized"
    /\ UNCHANGED <<obj, text, defect, sessionVars>>

ValidateShareStep ==
    /\ pc = "shareText"
    /\ parsed' = shareObjectSchema(text)
    /\ pc' = "validated"
    /\ UNCHANGED <<obj, text, defect, sessionVars>>

ShareCodecNext ==
    \/ SerializeShareStep
    \/ MalformShareStep
    \/ DeserializeShareStep
    \/ ValidateShareStep

SpecShareCodec == ShareCodecInit /\ [][ShareCodecNext]_vars

BoxCodecInit ==
    /\ SessionIdle
    /\ pc = "box"
    /\ obj \in ValidEnvelopes
    /\ text = <<>>
    /\ defect = "none"
    /\ parsed = None

SerializeBoxStep ==
    /\ pc = "box"
    /\ text' = serializeEncryptedData(obj)
    /\ pc' = "boxText"
    /\ UNCHANGED <<obj, defect, parsed, sessionVars>>

MalformBoxStep ==
    /\ pc = "boxText"
    /\ defect = "none"
    /\ \E d \in BoxDefects :
          /\ defect' = d
          /\ text' = MalformedBoxText(obj, d)
    /\ UNCHANGED <<pc, obj, parsed, sessionVars>>

ValidateBoxStep ==
    /\ pc = "boxText"
    /\ parsed' = encryptedBoxSchema(text)
    /\ pc' = "boxValidated"
    /\ UNCHANGED <<obj, text, defect, sessionVars>>

BoxCodecNext ==
    \/ SerializeBoxStep
    \/ MalformBoxStep
    \/ ValidateBoxStep

SpecBoxCodec == BoxCodecInit /\ [][BoxCodecNext]_vars

-----------------------------------------------------------------------------
(* Properties of the codec *)

\* C7: for every valid ShareObject s, deserializing serializeShare(s) gives
\* back s (as stated: for every bits in [3,20] and id in [1, 2^(bits-1)]).
ShareRoundTrip ==
    (pc \in {"deserialized", "validated"} /\ defect = "none")
        => parsed = Ok(obj)

\* C11: a share text that does not have exactly 4 fields, or has threshold
\* < 2, bits outside [3,20], id outside [1, 2^(bits-1)] or a body that is not
\* base64 of exactly SHARE_LENGTH symbols fails validation with a message and
\* yields no ShareObject.
MalformedShareRejected ==
    (pc \in {"deserialized", "validated"} /\ defect \in ShareDefects) =>
        /\ ~parsed.ok
        /\ parsed.issues # <<>>
        /\ parsed.value = None

MalformedShareWitness ==
    /\ pc = "deserialized"
    /\ defect = "idAbove"
    /\ parsed = Fail(<<"Expected id to be in Galois field">>)

TagDefectHasTagMessage ==
    (pc = "boxValidated" /\ defect \in TagDefects) =>
        /\ ~parsed.ok
        /\ \E i \in 1..Len(parsed.issues) : parsed.issues[i] = TagMessage

\* the message of a single defect of an envelope text
DefectMessage(d) ==
    CASE d \in InitVectorDefects -> InitVectorMessage
      [] d \in AuthTagDefects -> AuthTagMessage
      [] d \in AesKeyDefects -> AesKeyMessage
      [] d \in TextDefects -> NoTextMessage
      [] d \in ExtraDefects -> ExtraMessage

SingleDefects ==
    InitVectorDefects \cup AuthTagDefects \cup AesKeyDefects
        \cup TextDefects \cup ExtraDefects

\* C10: a text with exactly one defect among wrong-length initVector,
\* wrong-length authTag, wrong-length key, empty payload and trailing data
\* fails with the message of that defect only, and the five messages are
\* pairwise distinct.
SingleDefectSingleMessage ==
    /\ (pc = "boxValidated" /\ defect \in SingleDefects) =>
            parsed = Fail(<<DefectMessage(defect)>>)
    /\ \A d1, d2 \in SingleDefects :
            DefectMessage(d1) = DefectMessage(d2) =>
                \E D \in {InitVectorDefects, AuthTagDefects, AesKeyDefects,
                           TextDefects, ExtraDefects} : {d1, d2} \subseteq D

-----------------------------------------------------------------------------
(* secrets.js and node:crypto, symbolically *)

Return(v) == [threw |-> FALSE, code |-> "", message |-> "", value |-> v]
Throw(code, message) ==
    [threw |-> TRUE, code |-> code, message |-> message, value |-> None]

\* codes for which e.code.startsWith("ERR_OSSL") holds
OsslCodes == {"ERR_OSSL_UNSUPPORTED", "ERR_OSSL_RSA_OAEP_DECODING_ERROR"}

AuthFailureMessage == "Unsupported state or unable to authenticate data"
CombineFailureMessage == "Can't combine shares, probably shares are corrupted"
TextCorruptMessage == "Can't decrypt text, probably text is corrupt."
AuthCorruptMessage ==
    "Can't decrypt text, probably initial vector or auth tag is corrupt."

\* the split of the private key: number of shares, field size, share bodies
SplitThreshold == 3
SplitShares == 5
SplitBits == 8
ShareData(id) == Repeat(UpperDigits36[10 + id], SHARE_LENGTH)
CorruptData == Repeat("x", SHARE_LENGTH)

isGenuinePoint(share) ==
    /\ share.bits = SplitBits
    /\ share.id \in 1..(Pow2(SplitBits) - 1)
    /\ share.data = ShareData(share.id)

\* combineShares: secrets.combine of the shares' points; a repeated id is
\* skipped, the bits of all shares have to agree
combineShares(list) ==
    LET first(id) == list[CHOOSE i \in 1..Len(list) :
                             /\ list[i].id = id
                             /\ \A j \in 1..(i - 1) : list[j].id # id]
        ids == {list[i].id : i \in 1..Len(list)}
    IN  IF \E i \in 1..Len(list) : list[i].bits # list[1].bits
        THEN Throw("", "Mismatched shares: Different bit settings.")
        ELSE IF /\ Cardinality(ids) >= SplitThreshold
                /\ \A id \in ids : isGenuinePoint(first(id))
        THEN Return("privateKeyDer")
        ELSE Return("garbage")

\* parsePrivateKey: crypto.createPrivateKey of pkcs1 DER bytes
parsePrivateKey(data) ==
    IF data = "privateKeyDer" THEN Return("privateKey")
    ELSE Throw("ERR_OSSL_UNSUPPORTED",
               "error:1E08010C:DECODER routines::unsupported")

sharesToPrivateKeyUnmapped(list) ==
    LET combined == combineShares(list)
    IN  IF combined.threw THEN combined
        ELSE parsePrivateKey(combined.value)

\* sharesToPrivateKey
sharesToPrivateKey(list) ==
    LET combined == combineShares(list)
        key == IF combined.threw THEN combined
               ELSE parsePrivateKey(combined.value)
    IN  IF key.threw /\ key.code = "ERR_OSSL_UNSUPPORTED"
        THEN Throw("", CombineFailureMessage)
        ELSE key

\* templates in the text to encrypt
START_TEMPLATE == <<"<", "%">>
END_TEMPLATE == <<"%", ">">>

\* String.prototype.slice with both indices inside the text (0-based, the
\* end exclusive)
slice(s, start, end) == SubSeq(s, start + 1, end)

\* the 1-based positions at which the lazy match of <%.*?%> that starts at
\* position i may close: END_TEMPLATE at j, and no line terminator between
\* the markers ("." does not match one)
closings(s, i) ==
    { j \in (i + 2)..(Len(s) - 1) :
          /\ SubSeq(s, j, j + 1) = END_TEMPLATE
          /\ \A k \in (i + 2)..(j - 1) : s[k] # "\n" }

matchesAt(s, i) ==
    /\ i + 1 <= Len(s)
    /\ SubSeq(s, i, i + 1) = START_TEMPLATE
    /\ closings(s, i) # {}

\* the greedy <%.*%>
lastClosing(s, i) ==
    CHOOSE j \in closings(s, i) : \A other \in closings(s, i) : j >= other

\* the lazy ".*?" closes at the first of them
firstClosing(s, i) ==
    CHOOSE j \in closings(s, i) : \A other \in closings(s, i) : j <= other

\* input.matchAll(/<%.*?%>/g) from the 1-based position pos on
RECURSIVE matchAllFrom(_, _)
matchAllFrom(s, pos) ==
    IF pos > Len(s) THEN <<>>
    ELSE IF matchesAt(s, pos)
    THEN LET j == firstClosing(s, pos)
         IN  <<[startIndex |-> pos - 1,
                endIndex |-> j + 1,
                templateValue |-> SubSeq(s, pos + 2, j - 1)]>>
                 \o matchAllFrom(s, j + 2)
    ELSE matchAllFrom(s, pos + 1)

\* getTemplates
getTemplates(s) == matchAllFrom(s, 1)

\* getEncryptedStage: templates.reduceRight(...) from template k down
RECURSIVE templatedInputFrom(_, _, _, _)
templatedInputFrom(acc, templates, substitutes, k) ==
    IF k = 0 THEN acc
    ELSE templatedInputFrom(
             slice(acc, 0, templates[k].startIndex)
                 \o substitutes[k]
                 \o slice(acc, templates[k].endIndex, Len(acc)),
             templates, substitutes, k - 1)

templatedInput(s, templates, substitutes) ==
    templatedInputFrom(s, templates, substitutes, Len(templates))

\* a text of the model as the string node:crypto is given
RECURSIVE asString(_)
asString(s) == IF s = <<>> THEN "" ELSE s[1] \o asString(Tail(s))

\* the texts outside the templates, the texts inside them and the
\* substitutes typed in
TemplateLiterals == {<<>>, <<"a", "\n", "%", ">">>}
TemplateValues == {<<>>, <<"n", "<", "%">>}
SubstituteTexts == {<<"A">>, <<"B", "<", "%", "%", ">">>}

\* a text is given by its parts: count templates between count + 1 literals
TemplateParts ==
    UNION { [literals : [1..(count + 1) -> TemplateLiterals],
             values : [1..count -> TemplateValues]] :
                count \in 0..MaxTemplates }

\* the text of the parts from template k on, a template standing as
\* replacement(k)
RECURSIVE partsText(_, _, _)
partsText(parts, replacement, k) ==
    IF k > Len(parts.values) THEN <<>>
    ELSE replacement[k] \o parts.literals[k + 1]
             \o partsText(parts, replacement, k + 1)

\* the text to encrypt
textOfParts(parts) ==
    parts.literals[1]
        \o partsText(parts,
                     [k \in 1..Len(parts.values) |->
                         START_TEMPLATE \o parts.values[k]
                             \o END_TEMPLATE],
                     1)

\* the text with every template replaced by its substitute
substitutedText(parts, substitutes) ==
    parts.literals[1] \o partsText(parts, substitutes, 1)

TemplatedPlaintexts ==
    { asString(substitutedText(parts, substitutes)) :
          parts \in TemplateParts,
          substitutes \in [1..MaxTemplates -> SubstituteTexts] }

\* collectInitialStdin (stdin is not a terminal): the lines readline
\* yields, each without its line ending (\r\n, \n or \r), appended to one
\* another
collectInitialStdin(stdin) ==
    LET RECURSIVE readLines(_, _)
        readLines(rest, line) ==
            IF rest = <<>>
            THEN IF line = <<>> THEN <<>> ELSE <<line>>
            ELSE IF Len(rest) > 1 /\ rest[1] = "\r" /\ rest[2] = "\n"
            THEN <<line>> \o readLines(SubSeq(rest, 3, Len(rest)), <<>>)
            ELSE IF rest[1] \in {"\n", "\r"}
            THEN <<line>> \o readLines(Tail(rest), <<>>)
            ELSE readLines(Tail(rest), Append(line, rest[1]))
        RECURSIVE appendLines(_, _)
        appendLines(lines, collected) ==
            IF lines = <<>> THEN collected
            ELSE appendLines(Tail(lines), collected \o lines[1])
    IN  appendLines(readLines(stdin, <<>>), <<>>)

\* the texts piped to the program: lines, each but possibly the last one
\* followed by a line ending
StdinLines == {<<>>, <<"a">>, <<"b", "c">>}
StdinEndings == {<<"\n">>, <<"\r", "\n">>}
RECURSIVE StdinTextsOf(_)
StdinTextsOf(count) ==
    IF count = 0 THEN {<<>>}
    ELSE { line \o ending \o rest :
               line \in StdinLines, ending \in StdinEndings,
               rest \in StdinTextsOf(count - 1) }
             \cup (IF count = 1 THEN StdinLines ELSE {})
StdinTexts == UNION { StdinTextsOf(count) : count \in 0..MaxStdinLines }
StdinPlaintexts ==
    { asString(stdin) : stdin \in StdinTexts }
        \cup { asString(collectInitialStdin(stdin)) : stdin \in StdinTexts }

\* what crypto.randomBytes and the OAEP padding may draw, and the texts
\* that are encrypted
SymmetricKeys == {"aesKey", "aesKey2"}
InitVectors == {"iv", "iv2"}
OaepSeeds == {"seed", "seed2"}
SamplePlaintexts == {"", "text", "other text"}
Plaintexts == SamplePlaintexts \cup TemplatedPlaintexts \cup StdinPlaintexts
Draws ==
    [symmetricKey : SymmetricKeys, initVector : InitVectors, seed : OaepSeeds]

\* crypto.publicEncrypt with RSA-OAEP under the paired public key
publicEncrypt(symmetricKey, seed) ==
    "rsa(" \o symmetricKey \o "," \o seed \o ")"

\* cipherSymmetric: aes-256-gcm; the ciphertext is as long as the text
cipherSymmetric(key, initVector, dataToEncrypt) ==
    [encryptedText |->
         IF dataToEncrypt = "" THEN ""
         ELSE "aes(" \o key \o "," \o initVector \o "," \o dataToEncrypt
                  \o ")",
     authTag |->
         "authTag(" \o key \o "," \o initVector \o "," \o dataToEncrypt
             \o ")"]

encryptTextSwapped(dataToEncrypt, draws) ==
    LET encryptedAesKey == publicEncrypt(draws.symmetricKey, draws.seed)
        ciphered == cipherSymmetric(draws.symmetricKey, draws.initVector,
                                    dataToEncrypt)
    IN  [tag |-> brandingTag,
         authTag |-> draws.initVector,
         initVector |-> ciphered.authTag,
         encryptedAesKey |-> encryptedAesKey,
         encryptedText |-> ciphered.encryptedText,
         extra |-> <<>>]

\* encryptText, given what randomBytes and the padding draw in this call
encryptText(dataToEncrypt, draws) ==
    LET encryptedAesKey == publicEncrypt(draws.symmetricKey, draws.seed)
        ciphered == cipherSymmetric(draws.symmetricKey, draws.initVector,
                                    dataToEncrypt)
    IN  [tag |-> brandingTag,
         authTag |-> ciphered.authTag,
         initVector |-> draws.initVector,
         encryptedAesKey |-> encryptedAesKey,
         encryptedText |-> ciphered.encryptedText,
         extra |-> <<>>]

\* the envelope made by encryptText for the paired public key, and the
\* values of an envelope in which a symbol of a field was replaced
GoodEnvelope ==
    encryptText("text",
                [symmetricKey |-> "aesKey", initVector |-> "iv",
                 seed |-> "seed"])
Envelopes ==
    { GoodEnvelope,
      [GoodEnvelope EXCEPT !.initVector = @ \o "*"],
      [GoodEnvelope EXCEPT !.authTag = @ \o "*"],
      [GoodEnvelope EXCEPT !.encryptedAesKey = @ \o "*"],
      [GoodEnvelope EXCEPT !.encryptedText = @ \o "*"] }

\* crypto.privateDecrypt with RSA-OAEP
privateDecrypt(privateKey, encryptedAesKey) ==
    LET keys == { k \in SymmetricKeys :
                    \E seed \in OaepSeeds :
                        encryptedAesKey = publicEncrypt(k, seed) }
    IN  IF privateKey = "privateKey" /\ keys # {}
        THEN Return(CHOOSE k \in keys : TRUE)
        ELSE Throw("ERR_OSSL_RSA_OAEP_DECODING_ERROR",
                   "error:02000079:rsa routines::oaep decoding error")

\* decipherSymmetric: aes-256-gcm with the auth tag set
decipherSymmetric(key, initVector, encryptedText, authTag) ==
    LET texts == { d \in Plaintexts :
                     cipherSymmetric(key, initVector, d) =
                         [encryptedText |-> encryptedText,
                          authTag |-> authTag] }
    IN  IF texts # {}
        THEN Return(CHOOSE d \in texts : TRUE)
        ELSE Throw("", AuthFailureMessage)

\* decryptText
decryptText(box, privateKey) ==
    LET symmetricKey == privateDecrypt(privateKey, box.encryptedAesKey)
    IN  IF symmetricKey.threw THEN symmetricKey
        ELSE decipherSymmetric(symmetricKey.value, box.initVector,
                               box.encryptedText, box.authTag)

getDecryptedTextOneBranch(box, list) ==
    LET privateKey == sharesToPrivateKey(list)
        decrypted == decryptText(box, privateKey.value)
    IN  IF privateKey.threw THEN privateKey
        ELSE IF ~decrypted.threw THEN decrypted
        ELSE Throw("", TextCorruptMessage)

\* getDecryptedText
getDecryptedText(box, list) ==
    LET privateKey == sharesToPrivateKey(list)
        decrypted == decryptText(box, privateKey.value)
    IN  IF privateKey.threw THEN privateKey
        ELSE IF ~decrypted.threw THEN decrypted
        ELSE IF decrypted.code \in OsslCodes
        THEN Throw("", TextCorruptMessage)
        ELSE IF decrypted.message = AuthFailureMessage
        THEN Throw("", AuthCorruptMessage)
        ELSE decrypted

decryptOnDoneUncaught(box, list) ==
    LET decryptedText == getDecryptedText(box, list)
    IN  IF ~decryptedText.threw
        THEN [type |-> "result", result |-> decryptedText.value]
        ELSE [type |-> "crashed"]

\* Decrypt: the onDone given to SharesInput
decryptOnDone(box, list) ==
    LET decryptedText == getDecryptedText(box, list)
    IN  IF ~decryptedText.threw
        THEN [type |-> "result", result |-> decryptedText.value]
        ELSE [type |-> "error", message |-> decryptedText.message]

-----------------------------------------------------------------------------
(* SharesInput, HiddenInput and Input inside the Decrypt face *)

RECURSIVE joinLines(_)
joinLines(msgs) ==
    IF Len(msgs) = 0 THEN ""
    ELSE IF Len(msgs) = 1 THEN msgs[1]
    ELSE msgs[1] \o "\n" \o joinLines(Tail(msgs))

\* SharesInput: the validator given to HiddenInput
validator(line) ==
    LET result == deserializeShare(line)
    IN  IF Cardinality(PipePos(line)) # 3
        THEN [success |-> FALSE, error |-> "Error: Share format is incorrect"]
        ELSE IF ~result.ok
        THEN [success |-> FALSE,
              error |-> "Error: " \o joinLines(result.issues)]
        ELSE [success |-> TRUE, error |-> ""]

thresholdMismatchMessage(expected, actual) ==
    "Expected all shares to have the same threshold, got "
        \o ToString(expected) \o " and " \o ToString(actual)

onShareInputNoAdopt(prevThreshold, prevShares, line) ==
    LET share == deserializeShare(line).value
    IN  IF prevThreshold # None /\ prevThreshold[1] # share.threshold
        THEN [failed |-> TRUE,
              message |->
                  thresholdMismatchMessage(prevThreshold[1], share.threshold),
              threshold |-> prevThreshold,
              shares |-> prevShares]
        ELSE [failed |-> FALSE,
              message |-> "",
              threshold |-> prevThreshold,
              shares |-> Append(prevShares, share)]

onShareInputReplacing(prevThreshold, prevShares, line) ==
    LET share == deserializeShare(line).value
    IN  IF prevThreshold # None /\ prevThreshold[1] # share.threshold
        THEN [failed |-> TRUE,
              message |->
                  thresholdMismatchMessage(prevThreshold[1], share.threshold),
              threshold |-> prevThreshold,
              shares |-> prevShares]
        ELSE [failed |-> FALSE,
              message |-> "",
              threshold |-> IF prevThreshold # None THEN prevThreshold
                            ELSE Some(share.threshold),
              shares |-> <<share>>]

onShareInputUnchecked(prevThreshold, prevShares, line) ==
    [failed |-> FALSE,
     message |-> "",
     threshold |-> IF prevThreshold # None THEN prevThreshold
                   ELSE Some(deserializeShare(line).value.threshold),
     shares |-> Append(prevShares, deserializeShare(line).value)]

\* SharesInput.onShareInput: the error given to onError, or the next
\* `threshold` and `shares`
onShareInput(prevThreshold, prevShares, line) ==
    LET share == deserializeShare(line).value
    IN  IF prevThreshold # None /\ prevThreshold[1] # share.threshold
        THEN [failed |-> TRUE,
              message |->
                  thresholdMismatchMessage(prevThreshold[1], share.threshold),
              threshold |-> prevThreshold,
              shares |-> prevShares]
        ELSE [failed |-> FALSE,
              message |-> "",
              threshold |-> IF prevThreshold # None THEN prevThreshold
                            ELSE Some(share.threshold),
              shares |-> Append(prevShares, share)]

isCompleteOneEarly(nextThreshold, nextShares) ==
    nextThreshold # None /\ Len(nextShares) = nextThreshold[1] - 1

\* SharesInput: the condition of the completion effect
isComplete(nextThreshold, nextShares) ==
    nextThreshold # None /\ Len(nextShares) = nextThreshold[1]

\* the lines pasted into the share prompt
GenuineShare(t, id) ==
    [threshold |-> t, bits |-> SplitBits, id |-> id, data |-> ShareData(id)]
ValidShareLines ==
    { serializeShare(GenuineShare(SplitThreshold, id)) :
          id \in 1..SplitThreshold }
      \cup { serializeShare(GenuineShare(t, id)) :
                 t \in (2..MaxThreshold) \ {SplitThreshold}, id \in 1..2 }
      \cup { serializeShare([GenuineShare(SplitThreshold, 1)
                                 EXCEPT !.data = CorruptData]),
             serializeShare([GenuineShare(SplitThreshold, 2)
                                 EXCEPT !.bits = SplitBits - 1]) }
InvalidShareLines ==
    { <<"3", "|", "0", "5", "|", "a", "n", "y">>,
      Join(Join(Join(<<"2">>, <<"8">>), <<"1">>),
           SubSeq(ShareData(1), 1, SHARE_LENGTH - 2)),
      Join(Join(Join(<<"1">>, <<"8">>), <<"1">>), ShareData(1)) }
ShareLines == ValidShareLines \cup InvalidShareLines

CodecIdle ==
    /\ pc = "session"
    /\ obj = None
    /\ text = <<>>
    /\ defect = "none"
    /\ parsed = None

Init ==
    /\ stage = [type |-> "input"]
    /\ resetKey = 0
    /\ threshold = None
    /\ shares = <<>>
    /\ input = <<>>
    /\ error = None
    /\ encryptedData \in Envelopes
    /\ accepted = <<>>
    /\ handed = <<>>
    /\ CodecIdle

\* Input.useInput: a chunk that is neither Enter nor Backspace; the lines
\* are pasted into an empty prompt
Write ==
    /\ stage.type = "input"
    /\ input = <<>>
    /\ \E value \in ShareLines : input' = sanitizeBase64(input \o value)
    /\ error' = None
    /\ UNCHANGED <<stage, resetKey, threshold, shares, encryptedData,
                   accepted, handed, codecVars>>

\* symbols missing from the typed line the prompt is a prefix of
erased(s) ==
    LET lines == {l \in ShareLines :
                     Len(l) >= Len(s) /\ SubSeq(l, 1, Len(s)) = s}
    IN  IF lines = {} THEN 0
        ELSE Len(CHOOSE l \in lines : \A m \in lines : Len(l) <= Len(m))
                 - Len(s)

\* n backspace keystrokes
RECURSIVE eraseSymbols(_, _)
eraseSymbols(s, n) ==
    IF n = 0 THEN s
    ELSE eraseSymbols(sanitizeBase64(SubSeq(s, 1, Len(s) - 1)), n - 1)

\* Input.useInput: backspace, pressed once or held until the prompt is empty
Backspace ==
    /\ stage.type = "input"
    /\ \E n \in {1, Len(input)} :
          /\ n >= 1
          /\ n < Len(input) => erased(input) < MaxErased
          /\ input' = eraseSymbols(input, n)
    /\ error' = None
    /\ UNCHANGED <<stage, resetKey, threshold, shares, encryptedData,
                   accepted, handed, codecVars>>

EnterRejectedAnyStage ==
    /\ LET result == validator(input)
       IN  ~result.success /\ error' = Some(result.error)
    /\ UNCHANGED <<stage, resetKey, threshold, shares, input, encryptedData,
                   accepted, handed, codecVars>>

EnterRejectedClearsInput ==
    /\ stage.type = "input"
    /\ LET result == validator(input)
       IN  ~result.success /\ error' = Some(result.error)
    /\ input' = <<>>
    /\ UNCHANGED <<stage, resetKey, threshold, shares, encryptedData,
                   accepted, handed, codecVars>>

\* Input.useInput: Enter on a line the validator rejects
EnterRejected ==
    /\ stage.type = "input"
    /\ LET result == validator(input)
       IN  ~result.success /\ error' = Some(result.error)
    /\ UNCHANGED <<stage, resetKey, threshold, shares, input, encryptedData,
                   accepted, handed, codecVars>>

\* Input.useInput: Enter on a share whose threshold differs from the
\* session's; onError unmounts SharesInput
EnterMismatch ==
    /\ stage.type = "input"
    /\ validator(input).success
    /\ LET next == onShareInput(threshold, shares, input)
       IN  /\ next.failed
           /\ stage' = [type |-> "error", message |-> next.message]
           /\ threshold' = next.threshold
           /\ shares' = next.shares
    /\ error' = None
    /\ UNCHANGED <<resetKey, input, encryptedData, accepted, handed,
                   codecVars>>

\* Input.useInput: Enter on a share that is appended; the next slot is
\* mounted and the completion effect runs
EnterAccepted ==
    /\ stage.type = "input"
    /\ validator(input).success
    /\ LET next == onShareInput(threshold, shares, input)
       IN  /\ ~next.failed
           /\ threshold' = next.threshold
           /\ shares' = next.shares
    /\ accepted' = Append(accepted, shares'[Len(shares')])
    /\ input' = <<>>
    /\ error' = None
    /\ IF isComplete(threshold', shares')
       THEN /\ handed' = Append(handed, shares')
            /\ stage' = decryptOnDone(encryptedData, shares')
       ELSE UNCHANGED <<handed, stage>>
    /\ UNCHANGED <<resetKey, encryptedData, codecVars>>

ResetKeyAnyStage ==
    /\ resetKey < MaxResets
    /\ resetKey' = resetKey + 1
    /\ stage' = [type |-> "input"]
    /\ threshold' = None
    /\ shares' = <<>>
    /\ input' = <<>>
    /\ error' = None
    /\ accepted' = <<>>
    /\ handed' = <<>>
    /\ UNCHANGED <<encryptedData, codecVars>>

ResetKeyKeepsShares ==
    /\ stage.type = "error"
    /\ resetKey < MaxResets
    /\ resetKey' = resetKey + 1
    /\ stage' = [type |-> "input"]
    /\ input' = <<>>
    /\ error' = None
    /\ handed' = <<>>
    /\ UNCHANGED <<threshold, shares, accepted, encryptedData, codecVars>>

\* useResetKey: Enter in the error stage; SharesInput is mounted anew
ResetKey ==
    /\ stage.type = "error"
    /\ resetKey < MaxResets
    /\ resetKey' = resetKey + 1
    /\ stage' = [type |-> "input"]
    /\ threshold' = None
    /\ shares' = <<>>
    /\ input' = <<>>
    /\ error' = None
    /\ accepted' = <<>>
    /\ handed' = <<>>
    /\ UNCHANGED <<encryptedData, codecVars>>

Next ==
    \/ Write
    \/ Backspace
    \/ EnterRejected
    \/ EnterMismatch
    \/ EnterAccepted
    \/ ResetKey

Spec == Init /\ [][Next]_vars

-----------------------------------------------------------------------------
(* A share line typed symbol by symbol with foreign symbols in between *)

\* pickRandom("\n", "\u044f", "!", "#") of the decryption test; the Cyrillic
\* letter is the one symbol written "U+044F"
Foreign == {"\n", "U+044F", "!", "#"}

SoiledShareObjects ==
    {o \in ValidShareObjects :
        o.threshold = 2 /\ o.bits = SplitBits /\ o.id = 1}

foreignCount(s) == Cardinality({i \in 1..Len(s) : s[i] \in Foreign})

SoiledInit ==
    /\ stage = [type |-> "input"]
    /\ resetKey = 0
    /\ threshold = None
    /\ shares = <<>>
    /\ input = <<>>
    /\ error = None
    /\ encryptedData = None
    /\ accepted = <<>>
    /\ handed = <<>>
    /\ pc = "typing"
    /\ obj \in SoiledShareObjects
    /\ text = <<>>
    /\ defect = "none"
    /\ parsed = None

TypeSymbolUnparsed ==
    /\ pc = "typing"
    /\ LET line == serializeShare(obj)
           typed == Len(text) - foreignCount(text)
       IN  \E value \in Foreign \cup {"next"} :
              /\ value = "next" => typed < Len(line)
              /\ value # "next" => foreignCount(text) < MaxForeign
              /\ LET symbol == IF value = "next" THEN line[typed + 1]
                               ELSE value
                 IN  /\ text' = Append(text, symbol)
                     /\ input' = input \o <<symbol>>
    /\ UNCHANGED <<stage, resetKey, threshold, shares, error, encryptedData,
                   accepted, handed, pc, obj, defect, parsed>>

\* Input.useInput: a symbol of the line, or a foreign symbol, is typed
TypeSymbol ==
    /\ pc = "typing"
    /\ LET line == serializeShare(obj)
           typed == Len(text) - foreignCount(text)
       IN  \E value \in Foreign \cup {"next"} :
              /\ value = "next" => typed < Len(line)
              /\ value # "next" => foreignCount(text) < MaxForeign
              /\ LET symbol == IF value = "next" THEN line[typed + 1]
                               ELSE value
                 IN  /\ text' = Append(text, symbol)
                     /\ input' = sanitizeBase64(input \o <<symbol>>)
    /\ UNCHANGED <<stage, resetKey, threshold, shares, error, encryptedData,
                   accepted, handed, pc, obj, defect, parsed>>

\* Input.useInput: Enter once the whole line is typed; HiddenInput validates
\* and SharesInput.onShareInput appends
EnterSoiled ==
    /\ pc = "typing"
    /\ Len(text) - foreignCount(text) = Len(serializeShare(obj))
    /\ pc' = "entered"
    /\ LET result == validator(input)
       IN  IF result.success
           THEN LET next == onShareInput(threshold, shares, input)
                IN  /\ parsed' = deserializeShare(input)
                    /\ threshold' = next.threshold
                    /\ shares' = next.shares
                    /\ input' = <<>>
                    /\ error' = None
           ELSE /\ parsed' = Fail(<<result.error>>)
                /\ error' = Some(result.error)
                /\ UNCHANGED <<threshold, shares, input>>
    /\ UNCHANGED <<stage, resetKey, encryptedData, accepted, handed, obj,
                   text, defect>>

SoiledNext ==
    \/ TypeSymbol
    \/ EnterSoiled

SpecSoiledLine == SoiledInit /\ [][SoiledNext]_vars

\* C12: a serialized share with symbols outside [A-Za-z0-9=+|/] inserted at
\* arbitrary positions is accepted and gives the same ShareObject as the
\* clean line; the prompt always holds the sanitized form of what was typed,
\* and sanitizing it again changes nothing.
SoiledLineAccepted ==
    /\ pc = "typing" =>
          /\ input = sanitizeBase64(text)
          /\ sanitizeBase64(input) = input
          /\ foreignCount(input) = 0
    /\ pc = "entered" =>
          /\ parsed = Ok(obj)
          /\ shares = <<obj>>
          /\ error = None
          /\ sanitizeBase64(sanitizeBase64(text)) = sanitizeBase64(text)
          /\ sanitizeBase64(text) = serializeShare(obj)

SoiledLineWitness ==
    /\ pc = "entered"
    /\ foreignCount(text) = MaxForeign
    /\ \E i \in 2..(Len(text) - 1) :
          /\ text[i] = "U+044F"
          /\ text[i - 1] \in Base64Symbol
          /\ text[i + 1] \in Base64Symbol
    /\ shares = <<obj>>

-----------------------------------------------------------------------------
(* Properties of the share collection and of the decrypt session *)

\* the handler of Enter while the share prompt is mounted
EnterKey == EnterRejected \/ EnterMismatch \/ EnterAccepted

\* Enter hands the typed line to onEnter and leaves it, or the prompt is
\* mounted anew and empty; only typing gives another line
lineKeptOrCleared == input' = input \/ input' = <<>>

\* the share a valid line stands for
enteredShare == deserializeShare(input).value

\* C1: Enter on a share that parses while expectedThreshold is set to another
\* value ends in Failed with 'Expected all shares to have the same threshold,
\* got <expected> and <actual>', and the share is not appended.
ThresholdMismatchFails ==
    [][(/\ threshold # None
        /\ lineKeptOrCleared
        /\ validator(input).success
        /\ threshold[1] # enteredShare.threshold
        /\ EnterKey)
       => /\ stage' =
                [type |-> "error",
                 message |->
                     "Expected all shares to have the same threshold, got "
                         \o ToString(threshold[1]) \o " and "
                         \o ToString(enteredShare.threshold)]
          /\ shares' = shares
          /\ accepted' = accepted
          /\ handed' = handed]_vars

ThresholdMismatchWitness ==
    /\ stage.type = "error"
    /\ stage.message =
           "Expected all shares to have the same threshold, got 2 and 3"
    /\ Len(shares) = 1
    /\ shares[1].threshold = 2
    /\ handed = <<>>

\* C2: the share list is handed to the decrypt pipeline exactly when the
\* number of accepted shares reaches expectedThreshold: before that the
\* session collects at slot (number of accepted shares) + 1, and the list
\* handed over is the accepted shares in input order.
HandOverAtThreshold ==
    /\ handed # <<>> <=> (threshold # None /\ Len(accepted) = threshold[1])
    /\ handed # <<>> => handed = <<accepted>>
    /\ stage.type = "input" =>
          /\ handed = <<>>
          /\ Len(shares) + 1 = Len(accepted) + 1
          /\ threshold # None => Len(accepted) < threshold[1]
    /\ (stage.type # "input" /\ handed = <<>>) =>
          /\ stage.type = "error"
          /\ threshold # None /\ Len(accepted) < threshold[1]

HandOverWitness ==
    /\ Len(handed) = 1
    /\ Len(handed[1]) = 3
    /\ handed[1][1].id = 2
    /\ handed[1][2].id = 1
    /\ handed[1][3].id = 3
    /\ threshold = Some(3)

\* C3: Enter on a line that fails format validation leaves the stage, the
\* slot, expectedThreshold and the accepted shares unchanged and shows an
\* error; the error belongs to that slot only, and the prompt stays mounted
\* with the line so that the slot can be retried.
FormatErrorKeepsSlot ==
    /\ [][(/\ stage.type = "input"
           /\ lineKeptOrCleared
           /\ ~validator(input).success
           /\ EnterKey)
          => /\ error' # None
             /\ UNCHANGED <<stage, threshold, shares, accepted, handed,
                            input, resetKey>>]_vars
    /\ [][Len(shares') # Len(shares) => error' = None]_vars
    /\ [][error' # None => stage'.type = "input"]_vars

FormatErrorWitness ==
    /\ stage.type = "input"
    /\ error = Some("Error: Share format is incorrect")
    /\ Len(shares) = 1
    /\ input # <<>>

\* C4: from the error stage a step (Enter) leads to the input stage with an
\* empty share list, an unset threshold and slot #1; nothing entered before
\* is carried over.
ResetStartsAfresh ==
    [][stage.type = "error"
       => /\ stage' = [type |-> "input"]
          /\ threshold' = None
          /\ shares' = <<>>
          /\ accepted' = <<>>
          /\ handed' = <<>>
          /\ input' = <<>>
          /\ error' = None]_vars

ResetWitness ==
    /\ resetKey > 0
    /\ stage.type = "input"
    /\ Len(shares) = 1
    /\ threshold = Some(shares[1].threshold)

\* the cause for which the pipeline fails on the list handed over
importFails ==
    /\ ~combineShares(handed[1]).threw
    /\ parsePrivateKey(combineShares(handed[1]).value).threw
rsaFails ==
    /\ ~combineShares(handed[1]).threw
    /\ ~parsePrivateKey(combineShares(handed[1]).value).threw
    /\ privateDecrypt(parsePrivateKey(combineShares(handed[1]).value).value,
                      encryptedData.encryptedAesKey).threw
authFails ==
    /\ ~combineShares(handed[1]).threw
    /\ ~parsePrivateKey(combineShares(handed[1]).value).threw
    /\ ~rsaFails
    /\ \/ encryptedData.initVector # GoodEnvelope.initVector
       \/ encryptedData.authTag # GoodEnvelope.authTag
       \/ encryptedData.encryptedText # GoodEnvelope.encryptedText

\* the Failed state showing a message
Failed(message) == [type |-> "error", message |-> message]

\* C5: after completion a key import failure, a rejected authentication tag
\* and an RSA rejection of the encrypted key each end in Failed with their
\* own message, and the three messages differ.
FailureCauseMessages ==
    handed # <<>> =>
        /\ importFails => stage = Failed(
              "Can't combine shares, probably shares are corrupted")
        /\ authFails => stage = Failed(
              "Can't decrypt text, probably initial vector "
                  \o "or auth tag is corrupt.")
        /\ rsaFails => stage = Failed(
              "Can't decrypt text, probably text is corrupt.")

FailureCauseWitness ==
    /\ handed # <<>>
    /\ authFails
    /\ encryptedData.authTag # GoodEnvelope.authTag
    /\ stage.type = "error"

\* C6: the result stage is reached only when combining, key import and
\* decryption all succeeded, and shows the decrypted text; every exception of
\* the pipeline ends in the error stage with a message.
ResultOnlyOnSuccess ==
    /\ stage.type \in {"input", "result", "error"}
    /\ stage.type = "result" =>
          /\ handed # <<>>
          /\ ~importFails /\ ~rsaFails /\ ~authFails
          /\ ~combineShares(handed[1]).threw
          /\ stage.result = "text"
    /\ (handed # <<>>
            /\ (combineShares(handed[1]).threw
                    \/ importFails \/ rsaFails \/ authFails)) =>
          /\ stage.type = "error"
          /\ stage.message # ""

ResultWitness ==
    /\ stage.type = "result"
    /\ stage.result = "text"
    /\ Len(handed[1]) = SplitThreshold

-----------------------------------------------------------------------------
(* A decrypt session on the shares of the split: any of them, with a
   lowered threshold field, with one byte of the data changed *)

\* what a byte is changed to: another base64 symbol, the padding symbol, a
\* symbol outside the alphabet (decrypt.test.tsx 181-184 puts "a" first)
ChangedSymbols == {"a", "=", "!"}

changeByte(share, position, symbol) ==
    [share EXCEPT !.data = [@ EXCEPT ![position] = symbol]]

SplitShareLines ==
    { serializeShare(GenuineShare(SplitThreshold, id)) : id \in 1..SplitShares }

LoweredThresholdLines ==
    { serializeShare(GenuineShare(t, id)) :
          t \in 2..(SplitThreshold - 1), id \in 1..SplitShares }

ChangedByteLines ==
    { serializeShare(changeByte(GenuineShare(SplitThreshold, id), position, symbol)) :
          id \in 1..SplitShares, position \in 1..SHARE_LENGTH,
          symbol \in ChangedSymbols }

\* the changed lines as they arrive in the prompt
ChangedTyped == { sanitizeBase64(line) : line \in ChangedByteLines }

SplitInit == Init /\ encryptedData = GoodEnvelope

\* stdin.writeLn of a share of the split, of one with a lowered threshold
\* field, or of one with a changed byte while no changed share has been
\* accepted in this attempt
WriteSplitShare ==
    /\ stage.type = "input"
    /\ input = <<>>
    /\ \E value \in SplitShareLines \cup LoweredThresholdLines
                                     \cup ChangedByteLines :
          /\ value \in ChangedByteLines
                => \A i \in 1..Len(accepted) : isGenuinePoint(accepted[i])
          /\ input' = sanitizeBase64(input \o value)
    /\ error' = None
    /\ UNCHANGED <<stage, resetKey, threshold, shares, encryptedData,
                   accepted, handed, codecVars>>

SplitNext ==
    \/ WriteSplitShare
    \/ EnterRejected
    \/ EnterMismatch
    \/ EnterAccepted
    \/ ResetKey

SpecSplitSession == SplitInit /\ [][SplitNext]_vars

-----------------------------------------------------------------------------
(* Properties of the split: which shares decrypt *)

\* the shares of the split as generate-shares printed them
isSplitShare(share) ==
    /\ isGenuinePoint(share)
    /\ share.id \in 1..SplitShares
    /\ share.threshold = SplitThreshold

distinctIds(list) == Cardinality({list[i].id : i \in 1..Len(list)})

\* C14: with threshold 3 and 5 shares of one split, once any 3 distinct
\* shares have been entered, in any order, the list is handed over and the
\* stage shows exactly the plaintext encrypted under the paired public key.
AnySharesDecrypt ==
    (/\ encryptedData = GoodEnvelope
     /\ Len(accepted) = SplitThreshold
     /\ distinctIds(accepted) = SplitThreshold
     /\ \A i \in 1..Len(accepted) : isSplitShare(accepted[i]))
        => /\ handed = <<accepted>>
           /\ stage = [type |-> "result", result |-> "text"]

AnySharesDecryptWitness ==
    /\ stage = [type |-> "result", result |-> "text"]
    /\ Len(handed) = 1
    /\ Len(handed[1]) = 3
    /\ handed[1][1].id = 5
    /\ handed[1][2].id = 2
    /\ handed[1][3].id = 4
    /\ \A i \in 1..3 : handed[1][i].threshold = 3

\* C15: a hand-over of fewer than k distinct shares of the k-of-n split
\* (the session completed early on a lowered threshold field, or one share
\* was entered several times) never shows a result: the stage is the error
\* stage with the combine failure or with one of the decrypt failures.
FewerSharesFail ==
    (/\ handed # <<>>
     /\ \A i \in 1..Len(handed[1]) : isGenuinePoint(handed[1][i])
     /\ distinctIds(handed[1]) < SplitThreshold)
        => stage \in { Failed(CombineFailureMessage),
                       Failed(TextCorruptMessage),
                       Failed(AuthCorruptMessage) }

FewerSharesWitness ==
    /\ stage = Failed(CombineFailureMessage)
    /\ encryptedData = GoodEnvelope
    /\ Len(handed) = 1
    /\ Len(handed[1]) = 2
    /\ \A i \in 1..2 : /\ isGenuinePoint(handed[1][i])
                       /\ handed[1][i].threshold = 2
    /\ handed[1][1].id # handed[1][2].id

ResetOnlyInErrorStage ==
    [][/\ resetKey' # resetKey => stage.type = "error"
       /\ stage.type = "result" => UNCHANGED sessionVars
       /\ (stage.type = "input" /\ stage'.type = "input")
              => /\ Len(shares') >= Len(shares)
                 /\ SubSeq(shares', 1, Len(shares)) = shares
                 /\ threshold # None => threshold' = threshold]_vars

ResetOnlyInErrorStageWitness ==
    /\ stage.type = "input"
    /\ resetKey = 0
    /\ Len(shares) = 2
    /\ error # None

-----------------------------------------------------------------------------
(* The add-share session *)

\* addShare: secrets.newShare evaluates the polynomial of the supplied
\* points at `id`; the threshold is copied from the first share
addShare(id, list) ==
    LET combined == combineShares(list)
    IN  [threshold |-> list[1].threshold,
         bits |-> list[1].bits,
         id |-> id,
         data |-> IF ~combined.threw /\ combined.value = "privateKeyDer"
                  THEN ShareData(id)
                  ELSE CorruptData]

maxIdOfLast(list) == list[Len(list)].id

\* shares.reduce((acc, share) => Math.max(acc, share.id), 0)
maxId(list) ==
    LET ids == {list[i].id : i \in 1..Len(list)} \cup {0}
    IN  CHOOSE id \in ids : \A other \in ids : other <= id

getNewShareUnverified(list) ==
    Return(addShare(maxId(list) + 1, list))

\* getNewShare
getNewShare(list) ==
    LET privateKey == sharesToPrivateKey(list)
    IN  IF privateKey.threw THEN privateKey
        ELSE Return(addShare(maxId(list) + 1, list))

\* AddShare: onDone of SharesInput
addShareOnDone(list) ==
    LET newShare == getNewShare(list)
    IN  IF ~newShare.threw
        THEN [type |-> "result", result |-> newShare.value]
        ELSE [type |-> "error", message |-> newShare.message]

\* the envelope is not a prop of AddShare; it is the data the shares are
\* later used on
AddInit == Init /\ encryptedData = GoodEnvelope

AddEnterAccepted ==
    /\ stage.type = "input"
    /\ validator(input).success
    /\ LET next == onShareInput(threshold, shares, input)
       IN  /\ ~next.failed
           /\ threshold' = next.threshold
           /\ shares' = next.shares
    /\ accepted' = Append(accepted, shares'[Len(shares')])
    /\ input' = <<>>
    /\ error' = None
    /\ IF isComplete(threshold', shares')
       THEN /\ handed' = Append(handed, shares')
            /\ stage' = addShareOnDone(shares')
       ELSE UNCHANGED <<handed, stage>>
    /\ UNCHANGED <<resetKey, encryptedData, codecVars>>

AddNext ==
    \/ Write
    \/ Backspace
    \/ EnterRejected
    \/ EnterMismatch
    \/ AddEnterAccepted
    \/ ResetKey

SpecAddShare == AddInit /\ [][AddNext]_vars

\* the lists made of the new share followed by k-1 distinct shares of the
\* original split
withOriginals(newShare) ==
    { <<newShare>> \o [i \in 1..(SplitThreshold - 1) |->
                          GenuineShare(SplitThreshold, ids[i])] :
          ids \in { f \in [1..(SplitThreshold - 1) -> 1..SplitShares] :
                       \A i, j \in 1..(SplitThreshold - 1) :
                           i # j => f[i] # f[j] } }

suppliedFromSplit ==
    /\ Len(handed) = 1
    /\ distinctIds(handed[1]) = SplitThreshold
    /\ \A i \in 1..Len(handed[1]) : isSplitShare(handed[1][i])

\* C17: the share add-share shows for k distinct shares of the split,
\* together with any k-1 of the original shares, reconstructs the private
\* key and decrypts the data encrypted under the paired public key.
NewShareDecrypts ==
    (stage.type = "result" /\ suppliedFromSplit)
        => \A list \in withOriginals(stage.result) :
               getDecryptedText(encryptedData, list) = Return("text")

\* C18: add-share shows a new share only when the supplied shares combined
\* into bytes that import as a private key, and then it is the share derived
\* from them; when the import of the combined bytes fails the stage is the
\* error stage with "Can't combine shares, probably shares are corrupted",
\* and when combine itself throws it is the error stage: no share is shown.
NewShareOnlyAfterReconstruction ==
    /\ (handed # <<>> /\ importFails)
           => stage = Failed(CombineFailureMessage)
    /\ (handed # <<>> /\ combineShares(handed[1]).threw)
           => stage.type = "error"
    /\ stage.type = "result"
           => /\ handed # <<>>
              /\ ~combineShares(handed[1]).threw
              /\ ~parsePrivateKey(combineShares(handed[1]).value).threw
              /\ stage.result = addShare(maxId(handed[1]) + 1, handed[1])

ReconstructionFailureWitness ==
    /\ stage = Failed(CombineFailureMessage)
    /\ Len(handed) = 1
    /\ Len(handed[1]) = SplitThreshold
    /\ handed[1][1].data = CorruptData
    /\ isSplitShare(handed[1][2])
    /\ isSplitShare(handed[1][3])
    /\ distinctIds(handed[1]) = SplitThreshold

-----------------------------------------------------------------------------
(* The add-share command: --amount *)

\* values as the command line and the schemas see them: the text of a
\* decimal number, or a number
JsString(n) == [type |-> "string", value |-> n]
JsNumber(n) == [type |-> "number", value |-> n]

\* z.number().min(1).max(10).optional(), given undefined (None) or a value
newSharesAmountSchema(v) ==
    IF v = None THEN Ok(None)
    ELSE IF v[1].type # "number"
    THEN Fail(<<"Invalid input: expected number, received " \o v[1].type>>)
    ELSE LET amountIssues ==
                 IssueIf(v[1].value < 1, "Too small: expected number to be >=1")
                 \o IssueIf(v[1].value > 10,
                            "Too big: expected number to be <=10")
         IN  IF amountIssues # <<>> THEN Fail(amountIssues) ELSE Ok(v)

\* the amount option of addShareCommand: defaultValue when the option is
\* absent, otherwise stdType's from on the text of the argument
amountOption(arg) ==
    IF arg = None THEN Ok(Some(JsNumber(1)))
    ELSE newSharesAmountSchema(arg)

\* the schema of the add-share face
addShareSchema(args) == newSharesAmountSchema(args.amount)

\* what the result stage of AddShare renders: one Share
shownShares == IF stage.type = "result" THEN <<stage.result>> ELSE <<>>

AmountArgs == {None} \cup { Some(JsString(n)) : n \in 0..MaxAmountArg }

CommandInit ==
    /\ stage = [type |-> "input"]
    /\ resetKey = 0
    /\ threshold = None
    /\ shares = <<>>
    /\ input = <<>>
    /\ error = None
    /\ encryptedData = GoodEnvelope
    /\ accepted = <<>>
    /\ handed = <<>>
    /\ pc = "command"
    /\ obj \in AmountArgs
    /\ text = <<>>
    /\ defect = "none"
    /\ parsed = None

\* cmd-ts parses the arguments of add-share
ParseAmount ==
    /\ pc = "command"
    /\ LET result == amountOption(obj)
       IN  /\ parsed' = Some(result)
           /\ pc' = IF result.ok THEN "parsed" ELSE "rejected"
    /\ UNCHANGED <<sessionVars, obj, text, defect>>

\* handleFace: validate the arguments with the face's schema, then render
HandleFace ==
    /\ pc = "parsed"
    /\ LET props == addShareSchema([amount |-> parsed[1].value])
       IN  /\ parsed' = Some(props)
           /\ pc' = IF props.ok THEN "rendered" ELSE "rejected"
    /\ UNCHANGED <<sessionVars, obj, text, defect>>

CommandNext ==
    \/ ParseAmount
    \/ HandleFace
    \/ pc = "rendered" /\ AddNext

SpecAddShareCommand == CommandInit /\ [][CommandNext]_vars

\* C19: add-share invoked with --amount n, 1 <= n <= 10, is accepted and its
\* result shows n new shares; without the option it shows one.
AmountSharesOutput ==
    /\ (pc # "command" /\ obj # None /\ obj[1].value \in 1..10)
           => /\ pc # "rejected"
              /\ stage.type = "result" => Len(shownShares) = obj[1].value
    /\ (obj = None /\ stage.type = "result") => Len(shownShares) = 1

-----------------------------------------------------------------------------
(* The generate-shares arguments *)

KLessThanNMessage == "'k' should be less than 'n'."

\* z.coerce.number().min(2), given the text of an argument; the second
\* field tells whether the issues let the checks of the object go on
\* (a wrong type does not, a too small number does)
thresholdSchema(arg) ==
    LET value == Number(arg)
    IN  IF value = NaN
        THEN [result |-> Fail(<<"Invalid input: expected number, received NaN">>),
              continue |-> FALSE]
        ELSE IF value < 2
        THEN [result |-> Fail(<<"Too small: expected number to be >=2">>),
              continue |-> TRUE]
        ELSE [result |-> Ok(value), continue |-> TRUE]

sharesSchema(arg) == thresholdSchema(arg)

generateSharesSchemaNoRefine(options) ==
    LET k == thresholdSchema(options.threshold)
        n == sharesSchema(options.shares)
        fieldIssues == k.result.issues \o n.result.issues
    IN  IF fieldIssues # <<>> THEN Fail(fieldIssues)
        ELSE Ok([threshold |-> k.result.value, shares |-> n.result.value])

\* the schema of the generate-shares face: object of threshold and shares,
\* the refine shares > threshold, the transform (pubOutput left out)
generateSharesSchema(options) ==
    LET k == thresholdSchema(options.threshold)
        n == sharesSchema(options.shares)
        fieldIssues == k.result.issues \o n.result.issues
        refineIssues ==
            IssueIf(/\ k.continue
                    /\ n.continue
                    /\ ~(Number(options.shares) > Number(options.threshold)),
                    KLessThanNMessage)
    IN  IF fieldIssues \o refineIssues # <<>>
        THEN Fail(fieldIssues \o refineIssues)
        ELSE Ok([threshold |-> k.result.value, shares |-> n.result.value])

ArgTexts ==
    {<<>>, <<"a">>} \cup { toStringRadix(n, 10) : n \in 0..MaxSharesArg }

\* secrets.share(message, shares, threshold) gives the points 1..shares of
\* a field of SplitBits bits; deserializeShareSecret adds the threshold
createShares(options) ==
    [id \in 1..options.shares |-> GenuineShare(options.threshold, id)]

GenerateInit ==
    /\ stage = [type |-> "input"]
    /\ resetKey = 0
    /\ threshold = None
    /\ shares = <<>>
    /\ input = <<>>
    /\ error = None
    /\ encryptedData = None
    /\ accepted = <<>>
    /\ handed = <<>>
    /\ pc = "command"
    /\ obj \in { Some([threshold |-> k, shares |-> n]) :
                    k \in ArgTexts, n \in ArgTexts }
    /\ text = <<>>
    /\ defect = "none"
    /\ parsed = None

\* handleFace: validate(face.schema, input)
ValidateArgs ==
    /\ pc = "command"
    /\ LET props == generateSharesSchema(obj[1])
       IN  /\ parsed' = Some(props)
           /\ pc' = IF props.ok THEN "validated" ELSE "rejected"
    /\ UNCHANGED <<sessionVars, obj, text, defect>>

\* handleFace: render; the first render of GenerateShares makes the key
\* pair and splits the private key
GenerateKeyPair ==
    /\ pc = "validated"
    /\ pc' = "generated"
    /\ shares' = createShares(parsed[1].value)
    /\ UNCHANGED <<stage, resetKey, threshold, input, error, encryptedData,
                   accepted, handed, obj, text, defect, parsed>>

GenerateNext ==
    \/ ValidateArgs
    \/ GenerateKeyPair

SpecGenerateArgs == GenerateInit /\ [][GenerateNext]_vars

GeneratedSharesRoundTrip ==
    pc = "generated"
        => \A i \in 1..Len(shares) :
               /\ serializedShareSchema(serializeShare(shares[i]))
               /\ deserializeShare(serializeShare(shares[i])) = Ok(shares[i])
               /\ shares[i].id <= Pow2(shares[i].bits - 1)

-----------------------------------------------------------------------------
(* encryptText called twice on one text *)

EncryptInit ==
    /\ stage = [type |-> "input"]
    /\ resetKey = 0
    /\ threshold = None
    /\ shares = <<>>
    /\ input = <<>>
    /\ error = None
    /\ encryptedData = None
    /\ accepted = <<>>
    /\ handed = <<>>
    /\ pc = "encrypt"
    /\ obj \in { Some(d) : d \in SamplePlaintexts }
    /\ text = <<>>
    /\ defect = "none"
    /\ parsed = <<>>

\* one call of encryptText: `text` records what was drawn, `parsed` the
\* envelopes returned so far
EncryptStep ==
    /\ pc = "encrypt"
    /\ \E draws \in Draws :
          /\ text' = Append(text, draws)
          /\ parsed' = Append(parsed, encryptText(obj[1], draws))
    /\ pc' = IF Len(parsed) = 1 THEN "encrypted" ELSE "encrypt"
    /\ UNCHANGED <<sessionVars, obj, defect>>

EncryptNext == EncryptStep

SpecEncryptTwice == EncryptInit /\ [][EncryptNext]_vars

decryptsBack(box) == decryptText(box, "privateKey") = Return(obj[1])

-----------------------------------------------------------------------------
(* Properties of the threshold of a session *)

\* SharesInput: the line above the hidden input
promptLine(nextThreshold, nextShares) ==
    "Please input share #" \o ToString(Len(nextShares) + 1)
        \o (IF nextThreshold = None THEN ""
            ELSE " (out of " \o ToString(nextThreshold[1]) \o ")")

\* C22: once the first share of a session is accepted, expectedThreshold is
\* that share's threshold and the prompt says '(out of <threshold>)'; the
\* value does not change by any later step of the session, only a reset
\* unsets it.
ThresholdAdopted ==
    /\ [][accepted' # <<>>
              => /\ threshold' = Some(accepted'[1].threshold)
                 /\ stage'.type = "input"
                        => promptLine(threshold', shares') =
                               "Please input share #"
                                   \o ToString(Len(accepted') + 1)
                                   \o " (out of "
                                   \o ToString(accepted'[1].threshold)
                                   \o ")"]_vars
    /\ [][(threshold # None /\ resetKey' = resetKey)
              => threshold' = threshold]_vars
    /\ [][accepted' = <<>> => threshold' = None]_vars

ThresholdAdoptedWitness ==
    /\ stage.type = "input"
    /\ Len(accepted) = 2
    /\ threshold = Some(3)
    /\ accepted[1].threshold = 3
    /\ input # <<>>
    /\ error # None
    /\ promptLine(threshold, shares) = "Please input share #3 (out of 3)"

\* C28: within one session the hand-over of the shares (onDone) happens at
\* most once, and once the stage has left the input stage no key pressed in
\* the share prompt changes the stage, or anything else of the session,
\* until the reset.
HandOverOnce ==
    /\ [][Len(handed') <= 1]_vars
    /\ [][(stage.type # "input" /\ resetKey' = resetKey)
              => UNCHANGED sessionVars]_vars

HandOverOnceWitness ==
    /\ resetKey = 1
    /\ stage.type = "result"
    /\ Len(handed) = 1
    /\ Len(accepted) = Len(handed[1])

\* C31: the shares a collection session holds, and the list it hands over on
\* completion, have pairwise distinct ids; a share whose id is already in
\* the list fills no further slot.
SharesPairwiseDistinct ==
    /\ distinctIds(shares) = Len(shares)
    /\ \A i \in 1..Len(handed) : distinctIds(handed[i]) = Len(handed[i])

-----------------------------------------------------------------------------
(* The id of the share add-share shows *)

\* Share: the green line above the serialized share
shareTitle(share) == "Share #" \o ToString(share.id)

suppliedIds == { handed[1][i].id : i \in 1..Len(handed[1]) }

\* C23: the id of the share add-share shows is one more than the largest id
\* among the supplied shares, in whatever order they were supplied: from
\* shares 1, 2 and 3 it shows 'Share #4'.
NewShareIdAfterMax ==
    stage.type = "result"
        => /\ handed # <<>>
           /\ stage.result.id - 1 \in suppliedIds
           /\ \A id \in suppliedIds : id < stage.result.id
           /\ suppliedIds = {1, 2, 3}
                  => shareTitle(stage.result) = "Share #4"

NewShareIdWitness ==
    /\ stage.type = "result"
    /\ Len(handed) = 1
    /\ <<handed[1][1].id, handed[1][2].id, handed[1][3].id>> = <<3, 1, 2>>
    /\ shareTitle(stage.result) = "Share #4"

\* the ids of the shares of the original split
originalIds == 1..SplitShares

\* C30: the id of the share add-share shows for k distinct shares of the
\* split is the id of none of the n shares of the original split.
NewShareIdOutsideSplit ==
    (stage.type = "result" /\ suppliedFromSplit)
        => stage.result.id \notin originalIds

-----------------------------------------------------------------------------
(* The Encrypt face: templates and their substitutes *)

\* getEncryptedStage; the stage holds the envelope, which the face shows
\* serialized by serializeEncryptedData
getEncryptedStage(s, templates, substitutes, draws) ==
    [type |-> "result",
     encryptedText |->
         encryptText(asString(templatedInput(s, templates, substitutes)),
                     draws)]

\* verifyInputSubstitutes
verifyInputSubstitutes(s, draws) ==
    LET templates == getTemplates(s)
    IN  IF Len(templates) = 0
        THEN getEncryptedStage(s, <<>>, <<>>, draws)
        ELSE [type |-> "substitutes",
              input |-> s,
              templates |-> templates,
              substitutes |-> [i \in 1..Len(templates) |-> None],
              substituteIndex |-> 0]

\* Boolean(substitute): neither null nor the empty text
isEntered(substitute) == substitute # None /\ substitute[1] # <<>>

\* Input: initialValue = stage.substitutes[stage.substituteIndex] ?? ""
initialValue(substitute) == IF substitute = None THEN <<>> ELSE substitute[1]

onArrowUnverified(prevStage, type, value, draws) ==
    LET currentIndex == prevStage.substituteIndex
        last == Len(prevStage.substitutes) - 1
        updatedStage ==
            [prevStage EXCEPT !.substitutes[currentIndex + 1] = Some(value)]
    IN  IF currentIndex = (IF type = "left" THEN 0 ELSE last)
        THEN IF /\ currentIndex = last
                /\ type = "right"
                /\ \A i \in 1..(last + 1) :
                       updatedStage.substitutes[i] # None
             THEN getEncryptedStage(
                      prevStage.input, prevStage.templates,
                      [i \in 1..(last + 1) |->
                          updatedStage.substitutes[i][1]],
                      draws)
             ELSE updatedStage
        ELSE [updatedStage EXCEPT
                 !.substituteIndex =
                     currentIndex + (IF type = "left" THEN -1 ELSE 1)]

onArrowWrapping(prevStage, type, value, draws) ==
    LET currentIndex == prevStage.substituteIndex
        last == Len(prevStage.substitutes) - 1
        updatedStage ==
            [prevStage EXCEPT !.substitutes[currentIndex + 1] = Some(value)]
    IN  IF /\ currentIndex = last
           /\ type = "right"
           /\ \A i \in 1..(last + 1) : isEntered(updatedStage.substitutes[i])
        THEN getEncryptedStage(
                 prevStage.input, prevStage.templates,
                 [i \in 1..(last + 1) |-> updatedStage.substitutes[i][1]],
                 draws)
        ELSE [updatedStage EXCEPT
                 !.substituteIndex =
                     (currentIndex + (IF type = "left" THEN last ELSE 1))
                         % (last + 1)]

\* Encrypt: onArrow inside setStage; the draws are those of encryptText
onArrow(prevStage, type, value, draws) ==
    LET currentIndex == prevStage.substituteIndex
        last == Len(prevStage.substitutes) - 1
        updatedStage ==
            [prevStage EXCEPT !.substitutes[currentIndex + 1] = Some(value)]
    IN  IF currentIndex = (IF type = "left" THEN 0 ELSE last)
        THEN IF /\ currentIndex = last
                /\ type = "right"
                /\ \A i \in 1..(last + 1) :
                       isEntered(updatedStage.substitutes[i])
             THEN getEncryptedStage(
                      prevStage.input, prevStage.templates,
                      [i \in 1..(last + 1) |->
                          updatedStage.substitutes[i][1]],
                      draws)
             ELSE updatedStage
        ELSE [updatedStage EXCEPT
                 !.substituteIndex =
                     currentIndex + (IF type = "left" THEN -1 ELSE 1)]

\* obj holds the parts of the text to encrypt, accepted the text last
\* delivered for each template
TemplateInit ==
    /\ stage = [type |-> "input"]
    /\ resetKey = 0
    /\ threshold = None
    /\ shares = <<>>
    /\ input = <<>>
    /\ error = None
    /\ encryptedData = None
    /\ accepted = <<>>
    /\ handed = <<>>
    /\ pc = "mount"
    /\ obj \in { Some(parts) : parts \in TemplateParts }
    /\ text = <<>>
    /\ defect = "none"
    /\ parsed = None

\* Encrypt: the first render, with the text given as the input prop or
\* without it
Mount ==
    /\ pc = "mount"
    /\ \E initialInput \in {<<>>, textOfParts(obj[1])}, draws \in Draws :
          /\ text' = initialInput
          /\ stage' = IF initialInput = <<>> THEN [type |-> "input"]
                      ELSE verifyInputSubstitutes(initialInput, draws)
    /\ accepted' = [k \in 1..Len(obj[1].values) |-> <<>>]
    /\ pc' = "mounted"
    /\ UNCHANGED <<resetKey, threshold, shares, input, error, encryptedData,
                   handed, obj, defect, parsed>>

\* Input.useInput: the text to encrypt typed into the empty prompt; a
\* line feed among the keys would be the Enter key
WriteText ==
    /\ pc = "mounted"
    /\ stage.type = "input"
    /\ input = <<>>
    /\ \A i \in 1..Len(textOfParts(obj[1])) : textOfParts(obj[1])[i] # "\n"
    /\ input' = textOfParts(obj[1])
    /\ UNCHANGED <<stage, resetKey, threshold, shares, error, encryptedData,
                   accepted, handed, codecVars>>

EnterTextUnguarded ==
    /\ pc = "mounted"
    /\ stage.type = "input"
    /\ input = <<>> => Len(handed) < MaxEmptyEnters
    /\ handed' = Append(handed, input)
    /\ \E draws \in Draws : stage' = verifyInputSubstitutes(input, draws)
    /\ input' = <<>>
    /\ UNCHANGED <<resetKey, threshold, shares, error, encryptedData,
                   accepted, codecVars>>

\* Input.useInput: Enter in the input stage; handed holds the texts the
\* Input gave to onEnter, which is Encrypt's onShareInput
EnterText ==
    /\ pc = "mounted"
    /\ stage.type = "input"
    /\ input = <<>> => Len(handed) < MaxEmptyEnters
    /\ handed' = Append(handed, input)
    /\ IF input = <<>> THEN UNCHANGED <<stage, input>>
       ELSE /\ \E draws \in Draws :
                  stage' = verifyInputSubstitutes(input, draws)
            /\ input' = <<>>
    /\ UNCHANGED <<resetKey, threshold, shares, error, encryptedData,
                   accepted, codecVars>>

\* Input.useInput: a substitute typed into the empty prompt
WriteSubstitute ==
    /\ pc = "mounted"
    /\ stage.type = "substitutes"
    /\ input = <<>>
    /\ \E value \in SubstituteTexts : input' = value
    /\ UNCHANGED <<stage, resetKey, threshold, shares, error, encryptedData,
                   accepted, handed, codecVars>>

\* Input.useInput: backspace held until the prompt is empty
EraseSubstitute ==
    /\ pc = "mounted"
    /\ stage.type = "substitutes"
    /\ input # <<>>
    /\ input' = <<>>
    /\ UNCHANGED <<stage, resetKey, threshold, shares, error, encryptedData,
                   accepted, handed, codecVars>>

\* Input.useInput: an arrow key, or Enter for "right" (onEnter is
\* onArrow("right")); the Input is keyed by substituteIndex and starts
\* again from the stored substitute when the index changes; randomBytes
\* draws only when onArrow encrypts
ArrowKey(type) ==
    /\ pc = "mounted"
    /\ stage.type = "substitutes"
    /\ LET moved == onArrow(stage, type, input, CHOOSE draws \in Draws : TRUE)
       IN  IF moved.type = "substitutes" THEN stage' = moved
           ELSE \E draws \in Draws :
                    stage' = onArrow(stage, type, input, draws)
    /\ accepted' = [accepted EXCEPT ![stage.substituteIndex + 1] = input]
    /\ input' = IF stage'.type # "substitutes" THEN <<>>
                ELSE IF stage'.substituteIndex = stage.substituteIndex
                THEN input
                ELSE initialValue(
                         stage'.substitutes[stage'.substituteIndex + 1])
    /\ UNCHANGED <<resetKey, threshold, shares, error, encryptedData,
                   handed, codecVars>>

Arrow == \E type \in {"left", "right"} : ArrowKey(type)

TemplateNext ==
    \/ Mount
    \/ WriteText
    \/ EnterText
    \/ WriteSubstitute
    \/ EraseSubstitute
    \/ Arrow

SpecEncryptTemplates == TemplateInit /\ [][TemplateNext]_vars

\* C24: the encrypted result of a text with templates decrypts to the text
\* with every template replaced by the substitute entered for it and every
\* symbol outside the templates unchanged, for any number of templates and
\* substitutes of different lengths; the templates asked for are the
\* templates of the text, in their order.
TemplatesSubstituted ==
    /\ stage.type = "substitutes"
           => /\ Len(stage.templates) = Len(obj[1].values)
              /\ \A k \in 1..Len(stage.templates) :
                     stage.templates[k].templateValue = obj[1].values[k]
    /\ stage.type = "result"
           => decryptText(stage.encryptedText, "privateKey") =
                  Return(asString(substitutedText(obj[1], accepted)))

TemplatesSubstitutedWitness ==
    /\ stage.type = "result"
    /\ obj[1].literals = <<<<"a", "\n", "%", ">">>, <<>>,
                           <<"a", "\n", "%", ">">>>>
    /\ obj[1].values = <<<<"n", "<", "%">>, <<>>>>
    /\ accepted = <<<<"B", "<", "%", "%", ">">>, <<"A">>>>

\* the substitutes after the current text is stored for the template at
\* the index
storedSubstitutes ==
    [stage.substitutes EXCEPT ![stage.substituteIndex + 1] = Some(input)]

someSubstituteEmpty ==
    \E k \in 1..Len(storedSubstitutes) : ~isEntered(storedSubstitutes[k])

\* C32: in the substitutes stage substituteIndex stays within 0 .. number of
\* templates - 1; a left arrow at the first template, and a right arrow or
\* Enter at the last template while some substitute is empty, leave the index
\* unchanged and do not encrypt; an arrow away from these edges moves the
\* index by exactly one; every arrow that stays in the stage stores the
\* current text as the substitute of the template it was pressed on.
ArrowKeepsIndexInRange ==
    /\ [][stage'.type = "substitutes"
              => stage'.substituteIndex \in 0..(Len(stage'.templates) - 1)]_vars
    /\ [][\A type \in {"left", "right"} :
              ArrowKey(type)
                  => LET index == stage.substituteIndex
                         last == Len(stage.templates) - 1
                         atEdge == index = (IF type = "left" THEN 0 ELSE last)
                     IN  /\ stage'.type = "substitutes"
                                => /\ stage'.substitutes = storedSubstitutes
                                   /\ stage'.templates = stage.templates
                         /\ (type = "left" /\ index = 0)
                                => /\ stage'.type = "substitutes"
                                   /\ stage'.substituteIndex = index
                         /\ (type = "right" /\ index = last
                                  /\ someSubstituteEmpty)
                                => /\ stage'.type = "substitutes"
                                   /\ stage'.substituteIndex = index
                         /\ ~atEdge
                                => /\ stage'.type = "substitutes"
                                   /\ stage'.substituteIndex =
                                          index + (IF type = "left" THEN -1
                                                   ELSE 1)]_vars

ArrowKeepsIndexWitness ==
    /\ stage.type = "substitutes"
    /\ Len(stage.templates) = 2
    /\ stage.substituteIndex = 1
    /\ stage.substitutes = <<Some(<<"A">>), Some(<<>>)>>
    /\ input = <<>>

\* C33: the result stage is reached from the substitutes stage only by a
\* right arrow or Enter on the last template when every template has a
\* substitute that is not empty; the encrypted text then holds, for every
\* template, the text that was entered for it and that text is not empty.
ResultOnlyWhenAllEntered ==
    [][(stage.type = "substitutes" /\ stage'.type = "result")
          => /\ ArrowKey("right")
             /\ stage.substituteIndex = Len(stage.templates) - 1
             /\ ~someSubstituteEmpty
             /\ \A k \in 1..Len(accepted') : accepted'[k] # <<>>
             /\ \E draws \in Draws :
                    stage'.encryptedText =
                        encryptText(
                            asString(
                                templatedInput(
                                    stage.input, stage.templates,
                                    [k \in 1..Len(stage.templates) |->
                                        storedSubstitutes[k][1]])),
                            draws)
             /\ accepted' = [k \in 1..Len(stage.templates) |->
                                storedSubstitutes[k][1]]]_vars

ResultOnlyWhenAllEnteredWitness ==
    /\ stage.type = "result"
    /\ Len(obj[1].values) = 2
    /\ accepted = <<<<"A">>, <<"A">>>>
    /\ text # <<>>

\* C36: in the input stage of encrypt Enter on an empty text leaves the
\* session in the input stage and encrypts nothing; the session leaves the
\* input stage only by Enter on a text that is not empty.
EmptyEnterStays ==
    [][(pc = "mounted" /\ stage.type = "input")
          => /\ stage'.type # "input" => (EnterText /\ input # <<>>)
             /\ (handed' # handed /\ input = <<>>)
                    => (stage' = stage /\ input' = input)]_vars

EmptyEnterStaysWitness ==
    /\ pc = "mounted"
    /\ handed = <<<<>>, <<"<", "%", "%", ">">>>>
    /\ stage.type = "substitutes"
    /\ stage.input = <<"<", "%", "%", ">">>
    /\ stage.substitutes = <<None>>

trim(s) ==
    LET kept == { i \in 1..Len(s) : s[i] \notin Whitespace }
    IN  IF kept = {} THEN <<>>
        ELSE SubSeq(s, CHOOSE i \in kept : \A j \in kept : i <= j,
                    CHOOSE i \in kept : \A j \in kept : j <= i)

\* Encrypt, the substitutes stage: the lines
\* '[<template> -> <m> symbol(s)]' above the box, the green one marked
substituteLines(shown) ==
    LET filtered == SelectSeq(shown.substitutes, isEntered)
    IN  [index \in 1..Len(filtered) |->
            [template |-> trim(shown.templates[index].templateValue),
             symbols |-> Len(filtered[index][1]),
             green |-> shown.substituteIndex = index - 1]]

\* C34: in the substitutes stage every displayed line pairs a template with
\* the length of the substitute entered for that same template, and the
\* green line is the line of the template being edited, also when an
\* earlier template was left with an empty substitute.
SubstituteLinesPaired ==
    stage.type = "substitutes"
        => LET lines == substituteLines(stage)
               entered ==
                   SelectSeq([k \in 1..Len(stage.substitutes) |-> k],
                             LAMBDA k : isEntered(stage.substitutes[k]))
           IN  /\ Len(lines) = Len(entered)
               /\ \A p \in 1..Len(lines) :
                      /\ lines[p].template =
                             trim(stage.templates[entered[p]].templateValue)
                      /\ lines[p].symbols =
                             Len(stage.substitutes[entered[p]][1])
                      /\ lines[p].green =
                             (stage.substituteIndex = entered[p] - 1)

-----------------------------------------------------------------------------
(* handleFace of the command line program *)

\* safeParse(coerce(number([toMinValue(2)]), Number), text): the issue
\* messages are valibot's
minTwoParse(arg) ==
    LET value == Number(arg)
    IN  IF value = NaN THEN Fail(<<"Invalid type">>)
        ELSE IF value < 2 THEN Fail(<<"Invalid value">>)
        ELSE Ok(value)

RECURSIVE joinIssues(_)
joinIssues(msgs) ==
    IF Len(msgs) = 0 THEN ""
    ELSE IF Len(msgs) = 1 THEN msgs[1]
    ELSE msgs[1] \o "; " \o joinIssues(Tail(msgs))

\* the validator of the generate-shares face (pubOutput left out)
generateSharesValidator(options) ==
    LET thresholdParseResult == minTwoParse(options.threshold)
        sharesParseResult == minTwoParse(options.shares)
    IN  IF ~thresholdParseResult.ok
        THEN Throw("", "Error parsing threshold value: "
                           \o joinIssues(thresholdParseResult.issues))
        ELSE IF ~sharesParseResult.ok
        THEN Throw("", "Error parsing shares value: "
                           \o joinIssues(sharesParseResult.issues))
        ELSE IF thresholdParseResult.value >= sharesParseResult.value
        THEN Throw("", "Scheme " \o ToString(thresholdParseResult.value)
                           \o " out of " \o ToString(sharesParseResult.value)
                           \o " cannot be generated: \"k\" should be less"
                           \o " than \"n\".")
        ELSE Return([threshold |-> thresholdParseResult.value,
                     shares |-> sharesParseResult.value])

\* the validator of a face: the one of generate-shares, or the mock of the
\* test that throws
faceValidator(call) ==
    IF call.face = "generate-shares" THEN generateSharesValidator(call.input)
    ELSE Throw("", "Unexpected validation error")

\* String(e) of an Error
errorString(message) == "Error: " \o message

unmounted == [type |-> "unmounted"]

handleFaceUnvalidated(call) ==
    LET props == faceValidator(call)
    IN  [stage |-> [type |-> "rendered", face |-> call.face,
                    props |-> props.value],
         stderr |-> IF props.threw THEN <<errorString(props.message)>>
                    ELSE <<>>]

\* handleFace up to render: the validator, then render, or program.error
handleFace(call) ==
    LET props == faceValidator(call)
    IN  IF props.threw
        THEN [stage |-> unmounted, stderr |-> <<errorString(props.message)>>]
        ELSE [stage |-> [type |-> "rendered", face |-> call.face,
                         props |-> props.value],
              stderr |-> <<>>]

FaceCalls ==
    { [face |-> "generate-shares",
       input |-> [threshold |-> k, shares |-> n]] :
          k \in ArgTexts, n \in ArgTexts }
    \cup { [face |-> "encrypt", input |-> [pub |-> "pub.key"]] }

\* obj is the call of the action of a command, text what was written to
\* stderr
FaceInit ==
    /\ stage = unmounted
    /\ resetKey = 0
    /\ threshold = None
    /\ shares = <<>>
    /\ input = <<>>
    /\ error = None
    /\ encryptedData = None
    /\ accepted = <<>>
    /\ handed = <<>>
    /\ pc = "action"
    /\ obj \in { Some(call) : call \in FaceCalls }
    /\ text = <<>>
    /\ defect = "none"
    /\ parsed = None

\* handleFace: await face.validator(...input); render, or catch and
\* program.error, which writes to stderr and exits
RunFace ==
    /\ pc = "action"
    /\ LET handled == handleFace(obj[1])
       IN  /\ stage' = handled.stage
           /\ text' = handled.stderr
           /\ pc' = IF handled.stage = unmounted THEN "exited"
                    ELSE "rendered"
    /\ UNCHANGED <<resetKey, threshold, shares, input, error, encryptedData,
                   accepted, handed, obj, defect, parsed>>

\* handleFace: await instance.waitUntilExit(), which resolves, or rejects
\* with the error the app exited with
WaitUntilExit ==
    /\ pc = "rendered"
    /\ \E rejected \in BOOLEAN :
          text' = IF rejected THEN Append(text, errorString("exit"))
                  ELSE text
    /\ pc' = "exited"
    /\ UNCHANGED <<sessionVars, obj, defect, parsed>>

FaceNext ==
    \/ RunFace
    \/ WaitUntilExit

SpecHandleFace == FaceInit /\ [][FaceNext]_vars

\* C25: the component of a face is rendered only if its validator returned
\* and then with the props it returned; when the validator throws, the
\* error is written to stderr and the component is not rendered in any
\* later state.
RenderedOnlyIfValid ==
    /\ stage # unmounted
           => /\ ~faceValidator(obj[1]).threw
              /\ stage.props = faceValidator(obj[1]).value
    /\ (pc # "action" /\ faceValidator(obj[1]).threw)
           => /\ stage = unmounted
              /\ pc = "exited"
              /\ text = <<errorString(faceValidator(obj[1]).message)>>

RenderedOnlyIfValidWitness ==
    /\ pc = "exited"
    /\ obj[1].face = "encrypt"
    /\ stage = unmounted
    /\ text = <<"Error: Unexpected validation error">>

-----------------------------------------------------------------------------
(* A session whose HiddenInput awaits the validation *)

\* SharesInput.onShareInput: the check against the threshold the callback
\* closed over
closureMismatch(closure, share) ==
    closure # None /\ closure[1] # share.threshold

\* setThreshold((prevThreshold) => prevThreshold || share.threshold) and
\* setShares((prevShares) => [...prevShares, share]) for the queued shares,
\* in the order they were queued
RECURSIVE applyUpdaters(_, _, _)
applyUpdaters(prevThreshold, prevShares, queue) ==
    IF queue = <<>> THEN [threshold |-> prevThreshold, shares |-> prevShares]
    ELSE applyUpdaters(IF prevThreshold # None THEN prevThreshold
                       ELSE Some(queue[1].threshold),
                       Append(prevShares, queue[1]),
                       Tail(queue))

AsyncShareLines ==
    { serializeShare(GenuineShare(2, 1)),
      serializeShare(GenuineShare(2, 2)),
      serializeShare(GenuineShare(SplitThreshold, 1)),
      <<"3", "|", "0", "5", "|", "a", "n", "y">> }

\* text holds the validations that are awaited: the line, the threshold the
\* onDone of that render closed over, the slot and the SharesInput it was
\* entered in; obj holds the shares whose state updaters are queued for the
\* next render
AsyncInit ==
    /\ stage = [type |-> "input"]
    /\ resetKey = 0
    /\ threshold = None
    /\ shares = <<>>
    /\ input = <<>>
    /\ error = None
    /\ encryptedData = GoodEnvelope
    /\ accepted = <<>>
    /\ handed = <<>>
    /\ pc = "async"
    /\ obj = <<>>
    /\ text = <<>>
    /\ defect = "none"
    /\ parsed = None

\* Input.useInput: a line pasted into the empty prompt (setInput renders
\* what is queued, so nothing is)
AsyncWrite ==
    /\ stage.type = "input"
    /\ input = <<>>
    /\ obj = <<>>
    /\ \E value \in AsyncShareLines : input' = sanitizeBase64(value)
    /\ error' = None
    /\ UNCHANGED <<stage, resetKey, threshold, shares, encryptedData,
                   accepted, handed, codecVars>>

\* Input.useInput: backspace held until the prompt is empty
AsyncErase ==
    /\ stage.type = "input"
    /\ input # <<>>
    /\ obj = <<>>
    /\ input' = <<>>
    /\ error' = None
    /\ UNCHANGED <<stage, resetKey, threshold, shares, encryptedData,
                   accepted, handed, codecVars>>

\* HiddenInput.onEnterRaw up to its await; the model stops pressing Enter
\* when MaxInFlight validations are awaited or waiting for the render, and
\* in a session that already holds more shares than any threshold
PressEnter ==
    /\ stage.type = "input"
    /\ Len(text) + Len(obj) < MaxInFlight
    /\ Len(shares) <= SplitThreshold
    /\ text' = Append(text, [input |-> input,
                             closure |-> threshold,
                             slot |-> Len(shares),
                             key |-> resetKey])
    /\ UNCHANGED <<sessionVars, pc, obj, defect, parsed>>

\* HiddenInput.onEnterRaw after its await: setError, or onDone, which is
\* the onShareInput of the render the Enter key was pressed in
ResolveValidation ==
    \E i \in 1..Len(text) :
        LET awaited == text[i]
            mounted == stage.type = "input" /\ awaited.key = resetKey
            result == validator(awaited.input)
            share == deserializeShare(awaited.input).value
        IN  /\ text' = SubSeq(text, 1, i - 1) \o SubSeq(text, i + 1, Len(text))
            /\ IF ~result.success
               THEN /\ error' = IF mounted /\ awaited.slot = Len(shares)
                                THEN Some(result.error) ELSE error
                    /\ UNCHANGED <<stage, obj>>
               ELSE IF closureMismatch(awaited.closure, share)
               THEN /\ stage' =
                           [type |-> "error",
                            message |->
                                thresholdMismatchMessage(awaited.closure[1],
                                                         share.threshold)]
                    /\ obj' = <<>>
                    /\ error' = None
               ELSE /\ obj' = IF mounted THEN Append(obj, share) ELSE obj
                    /\ UNCHANGED <<stage, error>>
            /\ UNCHANGED <<resetKey, threshold, shares, input, encryptedData,
                           accepted, handed, pc, defect, parsed>>

\* SharesInput: the render that applies the queued updaters, mounts the
\* HiddenInput of the next slot and runs the completion effect
RenderShares ==
    /\ stage.type = "input"
    /\ obj # <<>>
    /\ LET next == applyUpdaters(threshold, shares, obj)
       IN  /\ threshold' = next.threshold
           /\ shares' = next.shares
    /\ accepted' = accepted \o obj
    /\ obj' = <<>>
    /\ input' = <<>>
    /\ error' = None
    /\ IF isComplete(threshold', shares')
       THEN /\ handed' = Append(handed, shares')
            /\ stage' = decryptOnDone(encryptedData, shares')
       ELSE UNCHANGED <<handed, stage>>
    /\ UNCHANGED <<resetKey, encryptedData, pc, text, defect, parsed>>

AsyncNext ==
    \/ AsyncWrite
    \/ AsyncErase
    \/ PressEnter
    \/ ResolveValidation
    \/ RenderShares
    \/ ResetKey

SpecAsyncSession == AsyncInit /\ [][AsyncNext]_vars

-----------------------------------------------------------------------------
(* encrypt with the text piped on stdin *)

\* obj holds what is on stdin, text what handleFace gives to the face
StdinInit ==
    /\ stage = [type |-> "input"]
    /\ resetKey = 0
    /\ threshold = None
    /\ shares = <<>>
    /\ input = <<>>
    /\ error = None
    /\ encryptedData = None
    /\ accepted = <<>>
    /\ handed = <<>>
    /\ pc = "stdin"
    /\ obj \in { Some(stdin) : stdin \in StdinTexts }
    /\ text = <<>>
    /\ defect = "none"
    /\ parsed = None

\* the encrypt command: await collectInitialStdin(stdin); the validator
\* returns the text as the input prop
CollectStdin ==
    /\ pc = "stdin"
    /\ text' = collectInitialStdin(obj[1])
    /\ pc' = "collected"
    /\ UNCHANGED <<sessionVars, obj, defect, parsed>>

\* Encrypt: the first render encrypts the input prop when it is not empty
MountEncrypt ==
    /\ pc = "collected"
    /\ \E draws \in Draws :
          stage' = IF text = <<>> THEN [type |-> "input"]
                   ELSE [type |-> "result",
                         encryptedText |-> encryptText(asString(text), draws)]
    /\ pc' = "mounted"
    /\ UNCHANGED <<resetKey, threshold, shares, input, error, encryptedData,
                   accepted, handed, obj, text, defect, parsed>>

StdinNext ==
    \/ CollectStdin
    \/ MountEncrypt

SpecEncryptStdin == StdinInit /\ [][StdinNext]_vars

\* C35: the text piped on stdin reaches the face unchanged, line breaks
\* included: the text the face is given is the text on stdin, and what
\* encrypt makes of it decrypts back to exactly that text.
StdinReachesFace ==
    /\ pc # "stdin" => text = obj[1]
    /\ (pc = "mounted" /\ stage.type = "result")
           => decryptText(stage.encryptedText, "privateKey") =
                  Return(asString(obj[1]))

-----------------------------------------------------------------------------
(* The input listeners of the faces *)

sessionListenersAlways(shown) ==
    {"useKeepAlive"}
        \cup (IF shown.type = "input"
              THEN {"SharesInput.useKeepAlive", "Input.useInput"} ELSE {})
        \cup (IF shown.type = "error" THEN {"useResetKey"} ELSE {})

\* Decrypt and AddShare: the useInput hooks that are active in a stage;
\* SharesInput, with its HiddenInput, is mounted in the input stage only
sessionListeners(shown) ==
    (IF shown.type = "input" THEN {"useKeepAlive"} ELSE {})
        \cup (IF shown.type = "input"
              THEN {"SharesInput.useKeepAlive", "Input.useInput"} ELSE {})
        \cup (IF shown.type = "error" THEN {"useResetKey"} ELSE {})

\* Encrypt: the Input is mounted in the input and the substitutes stage
encryptListeners(shown) ==
    (IF shown.type # "result" THEN {"useKeepAlive"} ELSE {})
        \cup (IF shown.type \in {"input", "substitutes"}
              THEN {"Input.useInput"} ELSE {})

\* a decrypt session on the shares of the split, or an encrypt session
FacesInit == SplitInit \/ TemplateInit

FacesNext ==
    \/ pc = "session" /\ SplitNext
    \/ TemplateNext

SpecFaces == FacesInit /\ [][FacesNext]_vars

\* C38: a session has an active input listener in every stage that awaits
\* input (input, substitutes, error) and none in the result stage, where no
\* further step is taken.
ListenerWhileAwaitingInput ==
    pc \in {"session", "mounted"}
        => LET listeners == IF pc = "session" THEN sessionListeners(stage)
                            ELSE encryptListeners(stage)
           IN  /\ stage.type \in {"input", "substitutes", "error", "result"}
               /\ stage.type # "result" => listeners # {}
               /\ stage.type = "result"
                      => (listeners = {} /\ ~ENABLED FacesNext)

ListenerWhileAwaitingInputWitness ==
    /\ pc = "session"
    /\ stage.type = "result"
    /\ resetKey = 1

=============================================================================
